---- MODULE Spec2Model ----
(***************************************************************************)
(* A model of coman's lock compilation and drift reconciliation:           *)
(*   - LockSpecification.env_hash                 (coman/lock.py, env.py)  *)
(*   - create_lockfile_from_spec, fn_to_dist_name (coman/lock.py, env.py)  *)
(*   - env_lock / env_install and the staleness checks                     *)
(*                              (coman/env.py, coman/spec.py, system.py)   *)
(*                                                                         *)
(* Python strings are TLA+ strings; where the code looks inside a string   *)
(* (a suffix, a partition, a strip, a split) the string is a sequence of   *)
(* tokens and Str() glues the tokens together.  None and a missing file    *)
(* are the empty sequence, a present value v is <<v>>.                     *)
(***************************************************************************)
EXTENDS Integers, Sequences, FiniteSets, TLC

\* ------------------------------------------------------------------ bounds
\* Longest specs list and longest channels list of a LockSpecification.
MaxLen == 2
\* Longest LINK list and longest FETCH list of a dry-run result.
MaxActions == 2
\* Compilations run on one dry-run result.
MaxCompiles == 2
\* Most lines of a solver message and of a specification file.
MaxLines == 2

\* ------------------------------------------------------------- optionals
None == <<>>
Some(v) == <<v>>
NoFile == <<>>

\* ------------------------------------------------------- string helpers
RECURSIVE Str(_)
\* "".join(tokens)
Str(tokens) == IF tokens = <<>> THEN "" ELSE Head(tokens) \o Str(Tail(tokens))

\* The text of each line of a list of lines
Texts(lines) == [i \in DOMAIN lines |-> Str(lines[i])]

RECURSIVE Join(_, _)
\* sep.join(strings)
Join(sep, strings) ==
    IF strings = <<>> THEN ""
    ELSE IF Len(strings) = 1 THEN strings[1]
    ELSE strings[1] \o sep \o Join(sep, Tail(strings))

SeqsUpTo(S, n) == UNION {[1..k -> S] : k \in 0..n}

Count(x, s) == Cardinality({i \in DOMAIN s : s[i] = x})

IsPermutation(s, t) ==
    /\ Len(s) = Len(t)
    /\ \A i \in DOMAIN s : Count(s[i], s) = Count(s[i], t)

\* The strings the model sorts, listed in Python's str order (code points).
StrOrder == <<"numpy =1.20", "python >=3.8", "scipy">>
StrRank(s) == CHOOSE i \in DOMAIN StrOrder : StrOrder[i] = s

RECURSIVE Insert(_, _)
Insert(x, sorted) ==
    IF sorted = <<>> THEN <<x>>
    ELSE IF StrRank(x) <= StrRank(Head(sorted)) THEN <<x>> \o sorted
    ELSE <<Head(sorted)>> \o Insert(x, Tail(sorted))

RECURSIVE Sorted(_)
\* sorted(list of str)
Sorted(s) == IF s = <<>> THEN <<>> ELSE Insert(Head(s), Sorted(Tail(s)))

\* ----------------------------------------------------------- universes
PLATFORMS == {"linux-64", "osx-64"}
ChannelNames == {"conda-forge", "defaults"}
SpecStrings == {"numpy =1.20", "python >=3.8"}

\* ------------------------------------------------- LockSpecification
LockSpecification(specs, channels, platform) ==
    [specs |-> specs, channels |-> channels, platform |-> platform]

LockSpecs ==
    {LockSpecification(s, c, p) :
        s \in SeqsUpTo(SpecStrings, MaxLen),
        c \in SeqsUpTo(ChannelNames, MaxLen),
        p \in PLATFORMS}

\* json.dumps of a list of str
JsonList(strings) ==
    "[" \o Join(", ", [i \in DOMAIN strings |-> "\"" \o strings[i] \o "\""]) \o "]"

\* hashlib.sha256(text).hexdigest(), taken as an injective function of text
Sha256(text) == "sha256<" \o text \o ">"

\* The hash of a specification whose specs are serialized in input order.
EnvHashUnsorted(ls) ==
    Sha256("{\"channels\": " \o JsonList(ls.channels)
           \o ", \"platform\": \"" \o ls.platform
           \o "\", \"specs\": " \o JsonList(ls.specs) \o "}")

\* LockSpecification.env_hash: json.dumps(..., sort_keys=True) of channels
\* (declared order), platform and sorted(specs), then sha256.
EnvHash(ls) ==
    Sha256("{\"channels\": " \o JsonList(ls.channels)
           \o ", \"platform\": \"" \o ls.platform
           \o "\", \"specs\": " \o JsonList(Sorted(ls.specs)) \o "}")

\* ---------------------------------------------------- token strings
\* str.endswith(suffix), for a suffix that is one token
EndsWith(tokens, suffix) == tokens # <<>> /\ tokens[Len(tokens)] = suffix

\* str.partition(sep)[0]: the text before the first occurrence of sep
Before(tokens, sep) ==
    IF \E i \in DOMAIN tokens : tokens[i] = sep
    THEN LET first == CHOOSE i \in DOMAIN tokens :
                          /\ tokens[i] = sep
                          /\ \A j \in 1..(i - 1) : tokens[j] # sep
         IN  SubSeq(tokens, 1, first - 1)
    ELSE tokens

Whitespace == {"", " ", "\n"}

RECURSIVE LStrip(_)
LStrip(tokens) ==
    IF tokens # <<>> /\ Head(tokens) \in Whitespace THEN LStrip(Tail(tokens)) ELSE tokens

RECURSIVE RStrip(_)
RStrip(tokens) ==
    IF tokens # <<>> /\ tokens[Len(tokens)] \in Whitespace
    THEN RStrip(SubSeq(tokens, 1, Len(tokens) - 1))
    ELSE tokens

\* str.strip()
Strip(tokens) == RStrip(LStrip(tokens))

\* ------------------------------------------------ fn_to_dist_name
\* A normalization that lets a name with another suffix pass as it is.
FnToDistNameLenient(fn) ==
    IF EndsWith(fn, ".conda") THEN [ok |-> TRUE, val |-> Before(fn, ".conda")]
    ELSE IF EndsWith(fn, ".tar.bz2") THEN [ok |-> TRUE, val |-> Before(fn, ".tar.bz2")]
    ELSE [ok |-> TRUE, val |-> fn]

\* Returns the distribution name, or raises RuntimeError (ok = FALSE).
FnToDistName(fn) ==
    IF EndsWith(fn, ".conda") THEN [ok |-> TRUE, val |-> Before(fn, ".conda")]
    ELSE IF EndsWith(fn, ".tar.bz2") THEN [ok |-> TRUE, val |-> Before(fn, ".tar.bz2")]
    ELSE [ok |-> FALSE, val |-> fn]

\* ----------------------------------------------- dry-run install records
Dists == {"numpy-1.20-0", "python-3.8-1"}
ArchiveExts == {".conda", ".tar.bz2"}
BaseUrl == "https://conda.anaconda.org/conda-forge"
Subdir == "linux-64"

\* A channel string: "<netloc><'/' + path segments>" with a netloc, else the
\* path segments joined by "/".
ChannelUrl == [netloc |-> "https://conda.anaconda.org", path |-> <<"conda-forge", Subdir>>]

\* urllib.parse.urlsplit(channel).path.split('/')
PathSplit(channel) ==
    IF channel.netloc # "" THEN <<"">> \o channel.path
    ELSE IF channel.path = <<>> THEN <<"">>
    ELSE channel.path

\* A LINK action as micromamba reports it: url, fn, subdir, channel; no
\* platform, dist_name, url_base or url_conda key yet.
MicromambaLink(dist, ext) ==
    [name |-> dist,
     url |-> <<BaseUrl, "/", Subdir, "/", dist, ext>>,
     fn |-> <<dist, ext>>,
     subdir |-> Some(Subdir),
     channel |-> ChannelUrl,
     base_url |-> None,
     platform |-> None,
     dist_name |-> None,
     url_base |-> None,
     url_conda |-> None]

\* A LINK action as conda/mamba reports it: base_url, platform, dist_name,
\* channel; no url, fn or subdir key.
CondaLink(dist) ==
    [name |-> dist,
     url |-> None,
     fn |-> None,
     subdir |-> None,
     channel |-> [netloc |-> "", path |-> <<"conda-forge">>],
     base_url |-> Some(BaseUrl),
     platform |-> Some(Subdir),
     dist_name |-> Some(<<dist>>),
     url_base |-> None,
     url_conda |-> None]

\* A FETCH action (also the shape of a conda-search result): fn, url, md5.
FetchAction(dist, ext) ==
    [fn |-> <<dist, ext>>,
     url |-> <<BaseUrl, "/", Subdir, "/", dist, ext>>,
     md5 |-> "md5<" \o dist \o ext \o ">"]

\* The result of a step that may raise: err = "" when it returned.
Ok(v) == [err |-> "", val |-> v]
Raise(e, v) == [err |-> e, val |-> v]

\* lock.py, the body of `for link in link_actions` for one record; the
\* assignments made before an exception stay in the record.
PrepareLinkLock(link, micromamba) ==
    IF micromamba THEN
        LET u  == FnToDistName(link.url)
            l1 == [link EXCEPT !.url_base = Some(u.val)]
            d  == FnToDistName(link.fn)
            l2 == [l1 EXCEPT !.dist_name = Some(d.val), !.platform = link.subdir]
            segs == PathSplit(link.channel)
            l3 == [l2 EXCEPT !.channel = [netloc |-> "", path |-> <<segs[Len(segs) - 1]>>]]
        IN  IF ~u.ok THEN Raise("RuntimeError", link)
            ELSE IF ~d.ok THEN Raise("RuntimeError", l1)
            ELSE IF Len(segs) < 2 THEN Raise("IndexError", l2)
            ELSE Ok([l3 EXCEPT !.url = u.val \o <<".tar.bz2">>,
                               !.url_conda = Some(u.val \o <<".conda">>)])
    ELSE
        LET base == <<link.base_url[1], "/", link.platform[1], "/">> \o link.dist_name[1]
        IN  Ok([link EXCEPT !.url_base = Some(base),
                            !.url = base \o <<".tar.bz2">>,
                            !.url_conda = Some(base \o <<".conda">>)])

\* env.py, the same loop body: no platform and no channel assignment.
PrepareLinkEnv(link, micromamba) ==
    IF micromamba THEN
        LET u  == FnToDistName(link.url)
            l1 == [link EXCEPT !.url_base = Some(u.val)]
            d  == FnToDistName(link.fn)
            l2 == [l1 EXCEPT !.dist_name = Some(d.val)]
        IN  IF ~u.ok THEN Raise("RuntimeError", link)
            ELSE IF ~d.ok THEN Raise("RuntimeError", l1)
            ELSE Ok([l2 EXCEPT !.url = u.val \o <<".tar.bz2">>,
                               !.url_conda = Some(u.val \o <<".conda">>)])
    ELSE
        LET base == <<link.base_url[1], "/", link.platform[1], "/">> \o link.dist_name[1]
        IN  Ok([link EXCEPT !.url_base = Some(base),
                            !.url = base \o <<".tar.bz2">>,
                            !.url_conda = Some(base \o <<".conda">>)])

PrepareLink(module, link, micromamba) ==
    IF module = "lock" THEN PrepareLinkLock(link, micromamba)
    ELSE PrepareLinkEnv(link, micromamba)

RECURSIVE PrepareLinks(_, _, _, _)
\* The whole loop over link_actions, in place, stopping at the first raise.
PrepareLinks(module, links, micromamba, i) ==
    IF i > Len(links) THEN Ok(links)
    ELSE LET r == PrepareLink(module, links[i], micromamba)
             links1 == [links EXCEPT ![i] = r.val]
         IN  IF r.err # "" THEN Raise(r.err, links1)
             ELSE PrepareLinks(module, links1, micromamba, i + 1)

\* {fn_to_dist_name(pkg["fn"]): pkg for pkg in fetch_actions}: a later entry
\* with the same key replaces an earlier one.
FetchByDistName(fetch_actions) ==
    IF \E i \in DOMAIN fetch_actions : ~FnToDistName(fetch_actions[i].fn).ok
    THEN Raise("RuntimeError", <<>>)
    ELSE LET key(i) == Str(FnToDistName(fetch_actions[i].fn).val)
             keys == {key(i) : i \in DOMAIN fetch_actions}
             last(k) == CHOOSE i \in DOMAIN fetch_actions :
                            /\ key(i) = k
                            /\ \A j \in DOMAIN fetch_actions : key(j) = k => j <= i
         IN  Ok([k \in keys |-> fetch_actions[last(k)]])

\* dist_name of the emitting loop: fn_to_dist_name(pkg["fn"]) with
\* micromamba, pkg["dist_name"] otherwise.
LinkDistName(pkg, micromamba) ==
    IF micromamba THEN FnToDistName(pkg.fn) ELSE [ok |-> TRUE, val |-> pkg.dist_name[1]]

\* lock.py: one package line, or the exception the loop body raises.
EmitLock(pkg, index, micromamba) ==
    LET d == LinkDistName(pkg, micromamba)
    IN  IF ~d.ok THEN Raise("RuntimeError", <<>>)
        ELSE IF Str(d.val) \in DOMAIN index
        THEN Ok(index[Str(d.val)].url \o <<"#", index[Str(d.val)].md5>>)
        ELSE Ok(pkg.url)

\* env.py: fetch_by_dist_name[dist_name] with no membership test.
EmitEnv(pkg, index, micromamba) ==
    LET d == LinkDistName(pkg, micromamba)
    IN  IF ~d.ok THEN Raise("RuntimeError", <<>>)
        ELSE IF Str(d.val) \in DOMAIN index
        THEN Ok(index[Str(d.val)].url \o <<"#", index[Str(d.val)].md5>>)
        ELSE Raise("KeyError", <<>>)

Emit(module, pkg, index, micromamba) ==
    IF module = "lock" THEN EmitLock(pkg, index, micromamba)
    ELSE EmitEnv(pkg, index, micromamba)

RECURSIVE EmitAllReversed(_, _, _, _, _, _)
\* An emitting loop that puts each new line before the earlier ones.
EmitAllReversed(module, links, index, micromamba, i, acc) ==
    IF i > Len(links) THEN Ok(acc)
    ELSE LET r == Emit(module, links[i], index, micromamba)
         IN  IF r.err # "" THEN Raise(r.err, acc)
             ELSE EmitAllReversed(module, links, index, micromamba, i + 1, <<r.val>> \o acc)

RECURSIVE EmitAll(_, _, _, _, _, _)
\* `for pkg in link_actions:` with its lockfile_contents.append
EmitAll(module, links, index, micromamba, i, acc) ==
    IF i > Len(links) THEN Ok(acc)
    ELSE LET r == Emit(module, links[i], index, micromamba)
         IN  IF r.err # "" THEN Raise(r.err, acc)
             ELSE EmitAll(module, links, index, micromamba, i + 1, Append(acc, r.val))

\* env.py only: search_for_md5s over the LINK records that have no FETCH
\* entry.  `searchable` is what conda search finds in the channels.  With
\* micromamba records matchspec() reads d["platform"], a key env.py never
\* sets: KeyError.
SearchForMd5s(links, index, micromamba, searchable) ==
    LET missing == {i \in DOMAIN links : Str(links[i].dist_name[1]) \notin DOMAIN index}
        found == {Str(links[i].dist_name[1]) : i \in {j \in missing : links[j].name \in searchable}}
        rec(k) == LET i == CHOOSE j \in missing : Str(links[j].dist_name[1]) = k
                  IN  FetchAction(links[i].name, ".tar.bz2")
    IN  IF missing = {} THEN Ok(index)
        ELSE IF \E i \in missing : links[i].platform = None THEN Raise("KeyError", index)
        ELSE Ok([k \in DOMAIN index \cup found |->
                    IF k \in found THEN rec(k) ELSE index[k]])

\* A line kept as it was built.
KeepLockfileLine(line) == line

\* sanitize_lockfile_line
SanitizeLockfileLine(line) ==
    IF Strip(line) = <<>> THEN <<"#">> ELSE Strip(line)

\* A header in which a blank line follows each of the four lines.
LockfileHeaderWithSeparators(lock_spec) ==
    << <<"# Generated by conda-lock.">>, <<"\n">>,
       <<"# platform:", " ", lock_spec.platform>>, <<"\n">>,
       <<"# env_hash:", " ", EnvHash(lock_spec), "\n">>, <<"\n">>,
       <<"@EXPLICIT", "\n">>, <<"\n">> >>

\* The header create_lockfile_from_spec starts lockfile_contents with.
LockfileHeader(lock_spec) ==
    << <<"# Generated by conda-lock.">>,
       <<"# platform:", " ", lock_spec.platform>>,
       <<"# env_hash:", " ", EnvHash(lock_spec), "\n">>,
       <<"@EXPLICIT", "\n">> >>

\* create_lockfile_from_spec after solve_specs_for_arch has returned
\* dry_run: [err, links (the LINK records as the call leaves them), lines
\* (each line a token string)].
CreateLockfileFromSpec(module, micromamba, lock_spec, dry_run, searchable) ==
    LET prep  == PrepareLinks(module, dry_run.LINK, micromamba, 1)
        fetch == FetchByDistName(dry_run.FETCH)
        index == IF module = "lock" \/ fetch.err # "" THEN fetch
                 ELSE SearchForMd5s(prep.val, fetch.val, micromamba, searchable)
        body  == EmitAll(module, prep.val, index.val, micromamba, 1, <<>>)
        raw   == LockfileHeader(lock_spec) \o body.val
        failed(e) == [err |-> e, links |-> prep.val, lines |-> <<>>]
    IN  IF prep.err # "" THEN failed(prep.err)
        ELSE IF fetch.err # "" THEN failed(fetch.err)
        ELSE IF index.err # "" THEN failed(index.err)
        ELSE IF body.err # "" THEN failed(body.err)
        ELSE [err |-> "", links |-> prep.val,
              lines |-> [i \in DOMAIN raw |-> SanitizeLockfileLine(raw[i])]]

\* ------------------------------------- specification file, lock files
\* conda.env.platform (platform_subdir() of the machine)
Platform == "linux-64"

\* environment.yml as the commands read it: platforms, channels, the str
\* entries of dependencies, and the entries of the pip sub-list.
SpecFiles ==
    [platforms : {<<"linux-64", "osx-64">>, <<"osx-64">>},
     channels : {<<"conda-forge">>},
     dependencies : {<<"python >=3.8">>, <<"python >=3.8", "numpy =1.20">>},
     pip : {<<>>, <<"requests ==2.0">>, <<"flask ==1.0">>}]

\* spec.platforms(...) / spec_platform_names
SpecPlatforms(spec) == spec.platforms

InSeq(x, s) == \E i \in DOMAIN s : s[i] = x

\* spec_pip_requirements: the pip entries joined by newlines, None without
\* a pip list.
SpecPipRequirements(spec) ==
    IF spec.pip = <<>> THEN None ELSE Some(Join("\n", spec.pip))

\* bool(x) of an Optional[str]
Truthy(opt) == opt # None /\ opt[1] # ""

\* parse_environment_file
ParseEnvironmentFile(spec, platform) ==
    LockSpecification(spec.dependencies, spec.channels, platform)

\* The package a dependency string resolves to.
SpecDist(dep) == IF dep = "numpy =1.20" THEN "numpy-1.20-0" ELSE "python-3.8-1"

\* What the solver's dry run returns for a LockSpecification: one LINK per
\* spec; FETCH holds them all (cached = FALSE) or none (the packages are in
\* the package cache already).
SolveSpecsForArch(ls, cached) ==
    [LINK |-> [i \in DOMAIN ls.specs |-> CondaLink(SpecDist(ls.specs[i]))],
     FETCH |-> IF cached THEN <<>>
               ELSE [i \in DOMAIN ls.specs |-> FetchAction(SpecDist(ls.specs[i]), ".tar.bz2")]]

\* ENV_HASH_PATTERN.search(line): group 1 of "^# env_hash: (.*)$"
EnvHashOfLine(line) ==
    LET end == IF line # <<>> /\ line[Len(line)] = "\n" THEN Len(line) - 1 ELSE Len(line)
    IN  IF end >= 2 /\ line[1] = "# env_hash:" /\ line[2] = " "
        THEN Some(Str(SubSeq(line, 3, end)))
        ELSE None

\* The loop of conda_lock_hash / pip_lock_hash over the lines of a file.
FirstEnvHash(lines) ==
    IF \E i \in DOMAIN lines : EnvHashOfLine(lines[i]) # None
    THEN LET first == CHOOSE i \in DOMAIN lines :
                          /\ EnvHashOfLine(lines[i]) # None
                          /\ \A j \in 1..(i - 1) : EnvHashOfLine(lines[j]) = None
         IN  Ok(EnvHashOfLine(lines[first])[1])
    ELSE Raise("RuntimeError", "")

\* conda_lock_hash(platform): open() raises when the file is missing.
CondaLockHash(file) ==
    IF file = NoFile THEN Raise("FileNotFoundError", "") ELSE FirstEnvHash(file[1])

\* pip_lock_hash(): None when requirements.txt is missing.
PipLockHash(file) ==
    IF file = NoFile THEN Ok(None)
    ELSE LET h == FirstEnvHash(file[1])
         IN  IF h.err # "" THEN h ELSE Ok(Some(h.val))

\* Environment.conda_hash / Environment.pip_hash: the stripped content of
\* the marker file, None when it does not exist.
ReadMarker(file) == IF file = NoFile THEN None ELSE Some(Str(Strip(file[1])))

\* A marker file that records the hash with a mark of its own.
MarkerFileTagged(hash) == Some(<<"installed:", hash>>)

\* f.write(hash) into a marker file
MarkerFile(hash) == Some(<<hash>>)

\* A conda_outdated that takes a missing marker for an installed one.
CondaOutdatedMissingIsCurrent(fs, conda_hash) ==
    LET h == IF Truthy(conda_hash) THEN conda_hash[1] ELSE CondaLockHash(fs.conda_lock).val
    IN  ReadMarker(fs.conda_hash_txt) # None /\ ReadMarker(fs.conda_hash_txt) # Some(h)

\* conda_outdated(conda, conda_hash) on the files fs
CondaOutdated(fs, conda_hash) ==
    LET h == IF Truthy(conda_hash) THEN conda_hash[1] ELSE CondaLockHash(fs.conda_lock).val
    IN  ReadMarker(fs.conda_hash_txt) # Some(h)

\* A pip_outdated that takes a missing marker for an installed one.
PipOutdatedMissingIsCurrent(fs, pip_hash) ==
    LET h == IF Truthy(pip_hash) THEN pip_hash ELSE PipLockHash(fs.pip_lock).val
    IN  ReadMarker(fs.pip_hash_txt) # None /\ ReadMarker(fs.pip_hash_txt) # h

\* pip_outdated(conda, pip_hash) on the files fs
PipOutdated(fs, pip_hash) ==
    LET h == IF Truthy(pip_hash) THEN pip_hash ELSE PipLockHash(fs.pip_lock).val
    IN  ReadMarker(fs.pip_hash_txt) # h

\* _run_pip_compile: the pinned requirements pip-compile prints
RunPipCompile(requirements) == "pinned<" \o requirements \o ">"

\* The file _env_lock_pip writes for the output `lock` of pip-compile
PipLockFile(lock) ==
    Some(<< <<"# Generated by pip-compile.">>,
            <<"# env_hash:", " ", Sha256(lock)>>,
            <<>>,
            <<lock>> >>)

\* =========================================================== state
VARIABLES
    lock_specs,   \* SpecHash: the two LockSpecification objects under comparison
    hashes,       \* SpecHash: env_hash() of each, None until it has been called
    module,       \* SpecCompile: which copy of create_lockfile_from_spec runs
    micromamba,   \* SpecCompile: conda.is_micromamba()
    lock_spec,    \* SpecCompile: the LockSpecification compiled
    dry_run,      \* SpecCompile: the solver's result; its LINK records are edited in place
    searchable,   \* SpecCompile: the package names conda search finds
    results,      \* SpecCompile: what each compilation so far returned or raised
    spec_data,      \* Spec: environment.yml
    conda_lock,     \* Spec: conda-<platform>.lock per platform, NoFile or Some(lines)
    pip_lock,       \* Spec: requirements.txt, NoFile or Some(lines)
    prefix_exists,  \* Spec: conda.env.prefix.exists()
    conda_hash_txt, \* Spec: <prefix>/conda_hash.txt, NoFile or Some(text)
    pip_hash_txt,   \* Spec: <prefix>/pip_hash.txt, NoFile or Some(text)
    frame,          \* Spec: the running command, its position and its locals
    log,            \* Spec: what the running command has done so far
    last_failure,   \* Spec: the installer failure of the latest env_install, if any
    settled,        \* Spec: the latest command was an env_install that completed, and
                    \*       no file was touched since
    proc,            \* SpecSolve: the finished solver process (returncode, stdout)
    outcome,         \* SpecSolve: what solve_specs_for_arch returned, printed and exited with
    msg,             \* SpecParse: the message given to parse_unsatisfiable_error
    msg_i,           \* SpecParse: the line the loop is at
    conflicts,       \* SpecParse: the dict being built, in insertion order
    incompatible,    \* SpecParse: the local set of requiring names
    content,         \* SpecFilter: the text given to filter_platform_selectors
    target_platform, \* SpecFilter: its platform argument
    content_i,       \* SpecFilter: the line the generator is at
    yielded,         \* SpecFilter: the lines yielded so far
    raised,          \* SpecFilter: the exception that ended the generator, "" if none
    old_pkgs,        \* SpecDiff: env_show before the install
    new_pkgs,        \* SpecDiff: env_show after the install
    diff,            \* SpecDiff: del_pkgs, add_pkgs and upd_pkgs once computed
    fn_base,         \* SpecDistName: the base name b of the file names
    dist_names,      \* SpecDistName: fn_to_dist_name(b + ext) per ext, None until called
    deps,            \* SpecEdit: spec_data["dependencies"]
    dep_names,       \* SpecEdit: the parallel list of names
    add_pkgs_left,   \* SpecEdit: the part of add_pkgs still to add
    remove_pkgs_left, \* SpecEdit: the part of remove_pkgs still to remove
    edit_err         \* SpecEdit: the exception that ended the command, "" if none

hash_vars == <<lock_specs, hashes>>
compile_vars == <<module, micromamba, lock_spec, dry_run, searchable, results>>
file_vars == <<spec_data, conda_lock, pip_lock, prefix_exists, conda_hash_txt, pip_hash_txt>>
install_vars == <<file_vars, frame, log, last_failure, settled>>
solve_vars == <<proc, outcome>>
parse_vars == <<msg, msg_i, conflicts, incompatible>>
filter_vars == <<content, target_platform, content_i, yielded, raised>>
diff_vars == <<old_pkgs, new_pkgs, diff>>
name_vars == <<fn_base, dist_names>>
edit_vars == <<deps, dep_names, add_pkgs_left, remove_pkgs_left, edit_err>>
text_vars == <<solve_vars, parse_vars, filter_vars, diff_vars, name_vars, edit_vars>>
vars == <<hash_vars, compile_vars, install_vars, text_vars>>

HashIdle == lock_specs = <<>> /\ hashes = <<>>
SolveIdle == proc = <<>> /\ outcome = <<>>
ParseIdle == msg = <<>> /\ msg_i = 0 /\ conflicts = <<>> /\ incompatible = {}
FilterIdle ==
    /\ content = <<>> /\ target_platform = "" /\ content_i = 0
    /\ yielded = <<>> /\ raised = ""
DiffIdle == old_pkgs = <<>> /\ new_pkgs = <<>> /\ diff = <<>>
NameIdle == fn_base = <<>> /\ dist_names = <<>>
EditIdle ==
    /\ deps = <<>> /\ dep_names = <<>> /\ add_pkgs_left = <<>>
    /\ remove_pkgs_left = <<>> /\ edit_err = ""
TextIdle == SolveIdle /\ ParseIdle /\ FilterIdle /\ DiffIdle /\ NameIdle /\ EditIdle
CompileIdle ==
    /\ module = "" /\ micromamba = FALSE /\ lock_spec = <<>>
    /\ dry_run = <<>> /\ searchable = {} /\ results = <<>>
InstallIdle ==
    /\ spec_data = <<>> /\ conda_lock = <<>> /\ pip_lock = <<>>
    /\ prefix_exists = FALSE /\ conda_hash_txt = <<>> /\ pip_hash_txt = <<>>
    /\ frame = <<>> /\ log = <<>> /\ last_failure = <<>> /\ settled = FALSE

\* ============================================== SpecHash: env_hash alone
HashInit ==
    /\ lock_specs \in [{1, 2} -> LockSpecs]
    /\ hashes = [i \in {1, 2} |-> None]
    /\ CompileIdle
    /\ InstallIdle
    /\ TextIdle

\* One call of lock_specs[i].env_hash()
CallEnvHash(i) ==
    /\ hashes[i] = None
    /\ hashes' = [hashes EXCEPT ![i] = Some(EnvHash(lock_specs[i]))]
    /\ UNCHANGED <<lock_specs, compile_vars, install_vars, text_vars>>

HashNext == \E i \in {1, 2} : CallEnvHash(i)

SpecHash == HashInit /\ [][HashNext]_vars

BothHashed == hashes[1] # None /\ hashes[2] # None

\* C1: with the same platform and the same channel list in the same order,
\* env_hash() is equal whenever the specs lists are permutations of each
\* other; and two specifications that differ only in the order of their
\* channels have different hashes.
HashOrderIndependence ==
    BothHashed =>
        /\ ( /\ lock_specs[1].platform = lock_specs[2].platform
             /\ lock_specs[1].channels = lock_specs[2].channels
             /\ IsPermutation(lock_specs[1].specs, lock_specs[2].specs)
           ) => hashes[1] = hashes[2]
        /\ ( /\ lock_specs[1].platform = lock_specs[2].platform
             /\ IsPermutation(lock_specs[1].specs, lock_specs[2].specs)
             /\ IsPermutation(lock_specs[1].channels, lock_specs[2].channels)
             /\ lock_specs[1].channels # lock_specs[2].channels
           ) => hashes[1] # hashes[2]

\* Both hashes computed for two specifications whose specs are the same
\* packages in a different order and whose channels are swapped.
HashOrderWitness ==
    /\ BothHashed
    /\ lock_specs[1].platform = lock_specs[2].platform
    /\ lock_specs[1].specs = <<"python >=3.8", "numpy =1.20">>
    /\ lock_specs[2].specs = <<"numpy =1.20", "python >=3.8">>
    /\ lock_specs[1].channels = <<"conda-forge", "defaults">>
    /\ lock_specs[2].channels = <<"defaults", "conda-forge">>
    /\ hashes[1] # hashes[2]

\* ============================ SpecCompile: create_lockfile_from_spec
\* A package file of a format the compiler does not expect.
UnexpectedDist == "numpy-1.20-0"
UnexpectedExt == ".zip"

\* A conda/mamba LINK action whose dist_name carries a file suffix.
CondaLinkWithSuffix(dist, ext) ==
    [CondaLink(dist) EXCEPT !.dist_name = Some(<<dist, ext>>)]

LinkChoices(mm) ==
    IF mm THEN {MicromambaLink(d, e) : d \in Dists, e \in ArchiveExts}
               \cup {MicromambaLink(UnexpectedDist, UnexpectedExt)}
    ELSE {CondaLink(d) : d \in Dists}
         \cup {CondaLinkWithSuffix(UnexpectedDist, UnexpectedExt)}

FetchChoices == {FetchAction(d, e) : d \in Dists, e \in ArchiveExts}

DryRuns(mm) ==
    {[LINK |-> l, FETCH |-> f] :
        l \in SeqsUpTo(LinkChoices(mm), MaxActions),
        f \in SeqsUpTo(FetchChoices, MaxActions)}

CompileInit ==
    /\ module \in {"lock", "env"}
    /\ micromamba \in BOOLEAN
    /\ lock_spec = LockSpecification(<<"python >=3.8", "numpy =1.20">>, <<"conda-forge">>, Subdir)
    /\ dry_run \in DryRuns(micromamba)
    /\ searchable \in (IF module = "env" /\ ~micromamba THEN SUBSET Dists ELSE {{}})
    /\ results = <<>>
    /\ HashIdle
    /\ InstallIdle
    /\ TextIdle

\* One call of create_lockfile_from_spec on the dry-run result at hand.
Compile ==
    /\ Len(results) < MaxCompiles
    /\ LET r == CreateLockfileFromSpec(module, micromamba, lock_spec, dry_run, searchable)
       IN  /\ dry_run' = [dry_run EXCEPT !.LINK = r.links]
           /\ results' = Append(results, [err |-> r.err, lines |-> Texts(r.lines),
                                           tokens |-> r.lines])
    /\ UNCHANGED <<module, micromamba, lock_spec, searchable, hash_vars, install_vars, text_vars>>

CompileNext == Compile

SpecCompile == CompileInit /\ [][CompileNext]_vars

LinkKey(i) == Str(LinkDistName(dry_run.LINK[i], micromamba).val)

\* C10: a compilation never fails because a LINK entry has no FETCH
\* counterpart; a LINK entry found in the FETCH index gives
\* "<fetch url>#<md5>" and one absent from it gives the LINK entry's own
\* URL without a checksum.
LinkWithoutFetchFallsBack ==
    \A n \in DOMAIN results :
        LET index == FetchByDistName(dry_run.FETCH).val
            header == Len(LockfileHeader(lock_spec))
        IN  /\ results[n].err # "KeyError"
            /\ results[n].err = "" =>
                   \A i \in DOMAIN dry_run.LINK :
                       results[n].lines[header + i] =
                           IF LinkKey(i) \in DOMAIN index
                           THEN Str(index[LinkKey(i)].url \o <<"#", index[LinkKey(i)].md5>>)
                           ELSE Str(dry_run.LINK[i].url)

\* The four header lines as the manifest holds them.
HeaderTexts ==
    <<"# Generated by conda-lock.",
      "# platform: " \o lock_spec.platform,
      "# env_hash: " \o EnvHash(lock_spec),
      "@EXPLICIT">>

\* C21 as stated: the manifest starts with the four header lines, each
\* immediately followed by a bare "#" line.
HeaderLinesSeparated ==
    \A n \in DOMAIN results :
        results[n].err = "" =>
            /\ Len(results[n].lines) >= 8
            /\ \A k \in 1..4 :
                   /\ results[n].lines[2 * k - 1] = HeaderTexts[k]
                   /\ results[n].lines[2 * k] = "#"

\* C21, amended: the manifest starts with the four header lines one after
\* the other, without the newline two of them are built with; the lines
\* after them are the package lines, one per LINK action, and no line of
\* the manifest is a bare "#".
HeaderLinesConsecutive ==
    \A n \in DOMAIN results :
        results[n].err = "" =>
            /\ Len(results[n].lines) = 4 + Len(dry_run.LINK)
            /\ SubSeq(results[n].lines, 1, 4) = HeaderTexts
            /\ \A i \in DOMAIN results[n].lines : results[n].lines[i] # "#"

\* A manifest with package lines has been compiled.
HeaderWitness ==
    /\ results # <<>>
    /\ results[1].err = ""
    /\ Len(dry_run.LINK) = 2
    /\ Len(results[1].lines) = 6

\* The lines a manifest can hold for a distribution: the URL of one of its
\* archives with the checksum of that archive, or its .tar.bz2 URL alone.
LinesOfDist(dist) ==
    {BaseUrl \o "/" \o Subdir \o "/" \o dist \o ext \o "#" \o FetchAction(dist, ext).md5 :
        ext \in ArchiveExts}
    \cup {BaseUrl \o "/" \o Subdir \o "/" \o dist \o ".tar.bz2",
          BaseUrl \o "/" \o Subdir \o "/" \o dist \o UnexpectedExt \o ".tar.bz2"}

\* C22: after the four header lines a manifest holds exactly one line per
\* LINK action, and the i-th of them is a line of the distribution of the
\* i-th LINK action, whatever FETCH holds and in whatever order.
PackageLinesFollowLinkOrder ==
    \A n \in DOMAIN results :
        results[n].err = "" =>
            /\ Len(results[n].lines) = Len(HeaderTexts) + Len(dry_run.LINK)
            /\ \A i \in DOMAIN dry_run.LINK :
                   results[n].lines[Len(HeaderTexts) + i] \in LinesOfDist(dry_run.LINK[i].name)

\* A manifest was compiled from two LINK actions whose FETCH entries come
\* in the opposite order.
LinkOrderWitness ==
    /\ results # <<>>
    /\ results[1].err = ""
    /\ Len(dry_run.LINK) = 2
    /\ Len(dry_run.FETCH) = 2
    /\ dry_run.LINK[1].name = "numpy-1.20-0"
    /\ dry_run.LINK[2].name = "python-3.8-1"
    /\ dry_run.FETCH[1].fn[1] = "python-3.8-1"
    /\ dry_run.FETCH[2].fn[1] = "numpy-1.20-0"

\* Non-empty, and neither its first nor its last token is whitespace.
CleanLine(tokens) ==
    /\ Str(tokens) # ""
    /\ tokens[1] \notin Whitespace
    /\ tokens[Len(tokens)] \notin Whitespace

\* Lines as create_lockfile_from_spec may build them, blank ones included.
BuiltLines ==
    {<<>>, <<" ">>, <<"\n">>, <<" ", "\n">>, <<"@EXPLICIT">>, <<"@EXPLICIT", "\n">>,
     <<" ", "@EXPLICIT", " ", "\n">>, <<"@EXPLICIT", " ", "@EXPLICIT">>}

\* C23: every line of a returned manifest is non-empty and has no leading
\* or trailing whitespace; sanitize_lockfile_line turns a line that is
\* blank after stripping into a bare "#" and every other line into its
\* stripped form.
ManifestLinesSanitized ==
    /\ \A n \in DOMAIN results :
           results[n].err = "" =>
               \A i \in DOMAIN results[n].tokens : CleanLine(results[n].tokens[i])
    /\ Len(results) = 1 =>
           \A line \in BuiltLines :
               /\ CleanLine(SanitizeLockfileLine(line))
               /\ SanitizeLockfileLine(line) =
                      IF \A i \in DOMAIN line : line[i] \in Whitespace
                      THEN <<"#">> ELSE Strip(line)

\* A manifest has been returned whose header was built with trailing
\* newlines.
SanitizedWitness ==
    /\ results # <<>>
    /\ results[1].err = ""
    /\ \E i \in DOMAIN LockfileHeader(lock_spec) :
           ~CleanLine(LockfileHeader(lock_spec)[i])
    /\ Len(results[1].tokens) > Len(LockfileHeader(lock_spec))

\* The LINK entry names a file with a suffix other than .conda / .tar.bz2.
HasOtherSuffix(link) ==
    IF micromamba THEN link.fn[Len(link.fn)] \notin ArchiveExts
    ELSE Len(link.dist_name[1]) > 1
         /\ link.dist_name[1][Len(link.dist_name[1])] \notin ArchiveExts

\* Every LINK entry of a returned manifest that has a FETCH entry of its
\* distribution, in whichever archive form, got the URL and checksum of
\* the last such FETCH entry: the names were compared without suffix.
LookedUpWithoutSuffix(n) ==
    results[n].err = "" =>
        \A i \in DOMAIN dry_run.LINK :
            LET same == {j \in DOMAIN dry_run.FETCH :
                            dry_run.FETCH[j].fn[1] = dry_run.LINK[i].name}
                last == CHOOSE j \in same : \A k \in same : k <= j
            IN  (same # {} /\ ~HasOtherSuffix(dry_run.LINK[i])) =>
                    results[n].lines[Len(HeaderTexts) + i] =
                        Str(dry_run.FETCH[last].url) \o "#" \o dry_run.FETCH[last].md5

\* C25 as stated: on both backends a compilation whose LINK list holds an
\* entry with another suffix raises, and the other entries are looked up
\* in the FETCH index under their name without suffix.
OtherSuffixRaisesOnBothBackends ==
    \A n \in DOMAIN results :
        /\ (\E i \in DOMAIN dry_run.LINK : HasOtherSuffix(dry_run.LINK[i]))
               => results[n].err # ""
        /\ LookedUpWithoutSuffix(n)

\* C25, amended: with micromamba a compilation whose LINK list holds an
\* entry with another suffix raises; with conda/mamba the dist_name of a
\* LINK entry is used as reported and never raises RuntimeError; on both
\* backends the entries without such a suffix are looked up in the FETCH
\* index under their name without suffix.
OtherSuffixRaisesWithMicromamba ==
    \A n \in DOMAIN results :
        /\ (micromamba /\ \E i \in DOMAIN dry_run.LINK : HasOtherSuffix(dry_run.LINK[i]))
               => results[n].err # ""
        /\ ~micromamba => results[n].err # "RuntimeError"
        /\ LookedUpWithoutSuffix(n)

\* With micromamba, a compilation has raised RuntimeError for a LINK entry
\* with another suffix that follows an entry with a known one.
OtherSuffixWitness ==
    /\ micromamba
    /\ results # <<>>
    /\ results[1].err = "RuntimeError"
    /\ Len(dry_run.LINK) = 2
    /\ ~HasOtherSuffix(dry_run.LINK[1])
    /\ HasOtherSuffix(dry_run.LINK[2])

\* ===================================== Spec: env_lock and env_install
NoFailure == ""

IdleFrame ==
    [cmd |-> "", pc |-> "", prune_arg |-> None, force |-> FALSE,
     use_pip |-> FALSE, conda_lock_at_start |-> FALSE, pip_lock_at_start |-> FALSE,
     lock_i |-> 0,
     conda_hash |-> "", conda_changed |-> FALSE,
     pip_hash |-> None, pip_changed |-> FALSE,
     prune |-> FALSE, installed |-> FALSE, failed |-> "",
     retry |-> NoFailure, after_success |-> FALSE]

\* One step of a command as the log records it: arg is the installer's mode
\* or the hash written, lock_file the manifest an installer was given and
\* prefix whether the environment prefix existed when the step began.
Event(ev, sub, arg, ok, lock_file) ==
    [ev |-> ev, sub |-> sub, arg |-> arg, ok |-> ok, lock_file |-> lock_file,
     prefix |-> prefix_exists]

\* last_failure is about the lock files the failed installer was given: it
\* is forgotten when env_lock leaves different ones.
Remembered(new_conda_lock, new_pip_lock) ==
    IF new_conda_lock = conda_lock[Platform] /\ new_pip_lock = pip_lock
    THEN last_failure ELSE NoFailure

\* The files the staleness checks read.
FS ==
    [conda_lock |-> conda_lock[Platform], pip_lock |-> pip_lock,
     conda_hash_txt |-> conda_hash_txt, pip_hash_txt |-> pip_hash_txt]

InstallInit ==
    /\ spec_data \in SpecFiles
    /\ conda_lock = [p \in PLATFORMS |-> NoFile]
    /\ pip_lock = NoFile
    /\ prefix_exists = FALSE
    /\ conda_hash_txt = NoFile
    /\ pip_hash_txt = NoFile
    /\ frame = IdleFrame
    /\ log = <<>>
    /\ last_failure = NoFailure
    /\ settled = FALSE
    /\ HashIdle
    /\ CompileIdle
    /\ TextIdle

Idle == frame.cmd = ""

\* The operator edits environment.yml between two commands.
EditSpec ==
    /\ settled' = FALSE
    /\ Idle
    /\ \E s \in SpecFiles \ {spec_data} : spec_data' = s
    /\ UNCHANGED <<conda_lock, pip_lock, prefix_exists, conda_hash_txt, pip_hash_txt,
                   frame, log, last_failure, hash_vars, compile_vars, text_vars>>

\* env_uninstall: conda env remove --prefix removes the prefix directory.
EnvUninstall ==
    /\ settled' = FALSE
    /\ Idle
    /\ prefix_exists
    /\ prefix_exists' = FALSE
    /\ conda_hash_txt' = NoFile
    /\ pip_hash_txt' = NoFile
    /\ UNCHANGED <<spec_data, conda_lock, pip_lock, frame, log, last_failure,
                   hash_vars, compile_vars, text_vars>>

\* `coman lock`: env_lock(conda, spec)
StartLock ==
    /\ settled' = FALSE
    /\ Idle
    /\ frame' = [IdleFrame EXCEPT !.cmd = "lock", !.pc = "lock_remove"]
    /\ log' = <<>>
    /\ UNCHANGED <<file_vars, last_failure, hash_vars, compile_vars, text_vars>>

\* A first loop that removes nothing.
LockFilesAllKept(locks, platforms) == locks

\* The lock files left by the first loop of _env_lock_conda: every path of
\* glob("conda-*.lock") that is not in new_lock_paths is removed.
LockFilesKept(locks, platforms) ==
    [p \in PLATFORMS |-> IF InSeq(p, platforms) THEN locks[p] ELSE NoFile]

\* _env_lock_conda, first loop: remove the lock files of platforms that
\* are no longer listed.
EnvLockCondaRemove ==
    /\ UNCHANGED settled
    /\ frame.pc = "lock_remove"
    /\ conda_lock' = LockFilesKept(conda_lock, SpecPlatforms(spec_data))
    /\ last_failure' = Remembered(conda_lock'[Platform], pip_lock)
    /\ frame' = [frame EXCEPT !.pc = IF SpecPlatforms(spec_data) = <<>> THEN "lock_pip"
                                     ELSE "lock_platform",
                              !.lock_i = 1]
    /\ UNCHANGED <<spec_data, pip_lock, prefix_exists, conda_hash_txt, pip_hash_txt,
                   log, hash_vars, compile_vars, text_vars>>

\* A lock file opened for writing before its content was compiled: open(.., "w")
\* truncates, and a failure leaves the empty file behind.
LockFileOpenedFirst(old, r) == IF r.err # "" THEN Some(<<>>) ELSE Some(r.lines)

\* The lock file of a platform after create_lockfile_from_spec and the
\* `with open(...)` that follows it: a failure ends the process before the
\* file is opened.
LockFileWritten(old, r) == IF r.err # "" THEN old ELSE Some(r.lines)

\* sys.exit(1) of solve_specs_for_arch, seen from _env_lock_conda.
SolverExit == [err |-> "solver_failed", links |-> <<>>, lines |-> <<>>]

\* _env_lock_conda, second loop, one platform: solve, compile, write.  The
\* solver may exit non-zero (solve_specs_for_arch exits) and the compiler
\* may raise; the file is written only after both returned.
EnvLockCondaPlatform ==
    /\ UNCHANGED settled
    /\ frame.pc = "lock_platform"
    /\ LET platform == SpecPlatforms(spec_data)[frame.lock_i]
           ls == ParseEnvironmentFile(spec_data, platform)
           last == frame.lock_i = Len(SpecPlatforms(spec_data))
           compiled == {CreateLockfileFromSpec("env", FALSE, ls,
                                               SolveSpecsForArch(ls, cached), {}) :
                            cached \in BOOLEAN}
       IN  \E r \in {SolverExit} \cup compiled :
             /\ conda_lock' = [conda_lock EXCEPT
                                  ![platform] = LockFileWritten(conda_lock[platform], r)]
             /\ IF r.err # ""
                THEN /\ frame' = [frame EXCEPT !.pc = "exit"]
                     /\ log' = Append(log, Event(r.err, "conda", platform, FALSE, None))
                ELSE /\ frame' = [frame EXCEPT !.pc = IF last THEN "lock_pip"
                                                      ELSE "lock_platform",
                                               !.lock_i = frame.lock_i + 1]
                     /\ log' = Append(log, Event("locked", "conda", platform, TRUE, None))
    /\ last_failure' = Remembered(conda_lock'[Platform], pip_lock)
    /\ UNCHANGED <<spec_data, pip_lock, prefix_exists, conda_hash_txt, pip_hash_txt,
                   hash_vars, compile_vars, text_vars>>

\* _env_lock_pip, and the return of env_lock to its caller.
EnvLockPip ==
    /\ UNCHANGED settled
    /\ frame.pc = "lock_pip"
    /\ LET requirements == SpecPipRequirements(spec_data)
           after == IF frame.cmd = "install" THEN "hashes" ELSE "done"
           returned == /\ frame' = [frame EXCEPT !.pc = after]
                       /\ log' = Append(log, Event("lock_done", "", "", TRUE, None))
       IN  IF ~Truthy(requirements)
           THEN /\ pip_lock' = NoFile
                /\ returned
           ELSE \/ /\ frame' = [frame EXCEPT !.pc = "exit"]
                   /\ log' = Append(log, Event("pip_compile_failed", "pip", "", FALSE, None))
                   /\ UNCHANGED pip_lock
                \/ /\ pip_lock' = PipLockFile(RunPipCompile(requirements[1]))
                   /\ returned
    /\ last_failure' = Remembered(conda_lock[Platform], pip_lock')
    /\ UNCHANGED <<spec_data, conda_lock, prefix_exists, conda_hash_txt, pip_hash_txt,
                   hash_vars, compile_vars, text_vars>>

\* A test for locking first that looks at the conda lock file only.
LockNeededCondaOnly(fs, use_pip) == fs.conda_lock = NoFile

\* env_install's test for locking first.
LockNeeded(fs, use_pip) ==
    fs.conda_lock = NoFile \/ (use_pip /\ fs.pip_lock = NoFile)

\* `coman install`: env_install up to and including the decision to lock.
StartInstall(prune_arg, force) ==
    /\ settled' = FALSE
    /\ Idle
    /\ log' = <<>>
    /\ IF ~InSeq(Platform, SpecPlatforms(spec_data))
       THEN /\ frame' = [IdleFrame EXCEPT !.cmd = "install", !.pc = "exit",
                                          !.prune_arg = prune_arg, !.force = force,
                                          !.after_success = settled]
            /\ UNCHANGED last_failure
       ELSE LET use_pip == Truthy(SpecPipRequirements(spec_data))
                needs == LockNeeded(FS, use_pip)
            IN  /\ frame' = [IdleFrame EXCEPT
                                !.cmd = "install",
                                !.pc = IF needs THEN "lock_remove" ELSE "hashes",
                                !.prune_arg = prune_arg, !.force = force,
                                !.use_pip = use_pip,
                                !.conda_lock_at_start = (conda_lock[Platform] # NoFile),
                                !.pip_lock_at_start = (pip_lock # NoFile),
                                !.retry = last_failure,
                                !.after_success = settled]
                /\ last_failure' = NoFailure
    /\ UNCHANGED <<file_vars, hash_vars, compile_vars, text_vars>>

\* A default for prune that does not ask whether pip is in use.
PruneWhenAnyStale(use_pip, conda_changed, pip_changed) == conda_changed \/ pip_changed

\* prune = (use_pip and conda_changed) or pip_changed
PruneDefault(use_pip, conda_changed, pip_changed) ==
    (use_pip /\ conda_changed) \/ pip_changed

\* env_install: the lock hashes, the two staleness checks and prune.
EnvInstallHashes ==
    /\ UNCHANGED settled
    /\ frame.pc = "hashes"
    /\ LET ch == CondaLockHash(conda_lock[Platform])
           ph == PipLockHash(pip_lock)
       IN  IF ch.err # "" \/ ph.err # ""
           THEN /\ frame' = [frame EXCEPT !.pc = "exit"]
                /\ log' = Append(log, Event("no_env_hash", "", "", FALSE, None))
           ELSE LET conda_changed == CondaOutdated(FS, Some(ch.val))
                    pip_changed == PipOutdated(FS, ph.val)
                    prune == IF frame.prune_arg = None
                             THEN PruneDefault(frame.use_pip, conda_changed, pip_changed)
                             ELSE frame.prune_arg[1]
                IN  /\ frame' = [frame EXCEPT !.pc = "conda",
                                              !.conda_hash = ch.val,
                                              !.conda_changed = conda_changed,
                                              !.pip_hash = ph.val,
                                              !.pip_changed = pip_changed,
                                              !.prune = prune]
                    /\ log' = Append(log, Event("compare", "", "", TRUE, None))
    /\ UNCHANGED <<file_vars, last_failure, hash_vars, compile_vars, text_vars>>

\* An installer mode that looks at the prefix only.
CondaInstallModeIgnoringPrune(prune, exists) == IF ~exists THEN "create" ELSE "install"

\* "create" if prune or not conda.env.prefix.exists() else "install"
CondaInstallMode(prune, exists) == IF prune \/ ~exists THEN "create" ELSE "install"

\* An env_install that goes on whatever the installer returned.
AfterInstallerIgnoringExit(ok, write_pc) == write_pc

\* Where env_install goes after an installer returned: on to the marker
\* write, or exit(1) on a non-zero return code.
AfterInstaller(ok, write_pc) == IF ok THEN write_pc ELSE "exit"

\* env_install, `# Conda`: _env_install_conda when force, prune or
\* conda_changed; the installer's return code is the environment's choice.
EnvInstallConda ==
    /\ UNCHANGED settled
    /\ frame.pc = "conda"
    /\ IF frame.force \/ frame.prune \/ frame.conda_changed
       THEN \E ok \in BOOLEAN :
              LET next_pc == AfterInstaller(ok, "conda_write")
              IN  /\ log' = Append(log, Event("run", "conda",
                                             CondaInstallMode(frame.prune, prefix_exists),
                                             ok, conda_lock[Platform]))
                  /\ prefix_exists' = (prefix_exists \/ ok)
                  /\ frame' = [frame EXCEPT !.pc = next_pc,
                                            !.failed = IF ok THEN "" ELSE "conda"]
                  /\ last_failure' = IF ok THEN last_failure ELSE "conda"
       ELSE /\ frame' = [frame EXCEPT !.pc = "pip"]
            /\ UNCHANGED <<log, prefix_exists, last_failure>>
    /\ UNCHANGED <<spec_data, conda_lock, pip_lock, conda_hash_txt, pip_hash_txt,
                   hash_vars, compile_vars, text_vars>>

\* env_install: conda_hash.txt is written with conda_hash.
EnvInstallCondaWrite ==
    /\ UNCHANGED settled
    /\ frame.pc = "conda_write"
    /\ conda_hash_txt' = MarkerFile(frame.conda_hash)
    /\ frame' = [frame EXCEPT !.pc = "pip", !.installed = TRUE]
    /\ log' = Append(log, Event("write", "conda", frame.conda_hash, TRUE, None))
    /\ UNCHANGED <<spec_data, conda_lock, pip_lock, prefix_exists, pip_hash_txt,
                   last_failure, hash_vars, compile_vars, text_vars>>

\* A removal of the pip marker that does not ask for the pip hash.
RemovesPipMarkerWhenPresent(pip_hash, marker) == marker # NoFile

\* `if pip_hash: ... elif pip_hash_path.exists(): os.remove(pip_hash_path)`
RemovesPipMarker(pip_hash, marker) == ~Truthy(pip_hash) /\ marker # NoFile

\* env_install, `# Pip`: _env_install_pip when there is a pip hash and
\* force, prune or pip_changed; without a pip hash the pip marker is removed.
EnvInstallPip ==
    /\ UNCHANGED settled
    /\ frame.pc = "pip"
    /\ IF Truthy(frame.pip_hash) /\ (frame.force \/ frame.prune \/ frame.pip_changed)
       THEN \E ok \in BOOLEAN :
              /\ log' = Append(log, Event("run", "pip", "install", ok, pip_lock))
              /\ frame' = [frame EXCEPT !.pc = AfterInstaller(ok, "pip_write"),
                                        !.failed = IF ok THEN "" ELSE "pip"]
              /\ last_failure' = IF ok THEN last_failure ELSE "pip"
              /\ UNCHANGED pip_hash_txt
       ELSE IF RemovesPipMarker(frame.pip_hash, pip_hash_txt)
            THEN /\ pip_hash_txt' = NoFile
                 /\ log' = Append(log, Event("remove", "pip", "", TRUE, None))
                 /\ frame' = [frame EXCEPT !.pc = "done"]
                 /\ UNCHANGED last_failure
            ELSE /\ frame' = [frame EXCEPT !.pc = "done"]
                 /\ UNCHANGED <<log, last_failure, pip_hash_txt>>
    /\ UNCHANGED <<spec_data, conda_lock, pip_lock, prefix_exists, conda_hash_txt,
                   hash_vars, compile_vars, text_vars>>

\* env_install: pip_hash.txt is written with pip_hash.
EnvInstallPipWrite ==
    /\ UNCHANGED settled
    /\ frame.pc = "pip_write"
    /\ pip_hash_txt' = MarkerFile(frame.pip_hash[1])
    /\ frame' = [frame EXCEPT !.pc = "done", !.installed = TRUE]
    /\ log' = Append(log, Event("write", "pip", frame.pip_hash[1], TRUE, None))
    /\ UNCHANGED <<spec_data, conda_lock, pip_lock, prefix_exists, conda_hash_txt,
                   last_failure, hash_vars, compile_vars, text_vars>>

\* The command has returned or exited; the next one can start.
Return ==
    /\ settled' = (frame.cmd = "install" /\ frame.pc = "done")
    /\ frame.pc \in {"done", "exit"}
    /\ frame' = IdleFrame
    /\ log' = <<>>
    /\ UNCHANGED <<file_vars, last_failure, hash_vars, compile_vars, text_vars>>

Next ==
    \/ EditSpec
    \/ EnvUninstall
    \/ StartLock
    \/ EnvLockCondaRemove
    \/ EnvLockCondaPlatform
    \/ EnvLockPip
    \/ \E prune_arg \in {None, Some(TRUE), Some(FALSE)}, force \in BOOLEAN :
           StartInstall(prune_arg, force)
    \/ EnvInstallHashes
    \/ EnvInstallConda
    \/ EnvInstallCondaWrite
    \/ EnvInstallPip
    \/ EnvInstallPipWrite
    \/ Return

Spec == InstallInit /\ [][Next]_vars

\* ------------------------------------------------------------ claims
MarkerText(marker) == Str(marker[1])

EmbeddedHash(lock) == FirstEnvHash(lock[1]).val

MarkerMatches(marker, lock) ==
    marker # NoFile /\ lock # NoFile /\ MarkerText(marker) = EmbeddedHash(lock)

\* The state right after env_install made its two staleness checks.
Compared == frame.cmd = "install" /\ frame.pc = "conda"

OtherMarkers == {NoFile, MarkerFile("abc123"), MarkerFile("xyz789")}

OtherCondaLocks == {NoFile} \cup {conda_lock[p] : p \in PLATFORMS}

OtherPipLocks ==
    {NoFile, PipLockFile(RunPipCompile("requests ==2.0")),
     PipLockFile(RunPipCompile("flask ==1.0"))}

\* Neither check reads the other subsystem's marker or manifest.
StalenessIndependent ==
    /\ \A m \in OtherMarkers, l \in OtherPipLocks :
         CondaOutdated([FS EXCEPT !.pip_hash_txt = m, !.pip_lock = l],
                       Some(frame.conda_hash)) = frame.conda_changed
    /\ \A m \in OtherMarkers, l \in OtherCondaLocks :
         PipOutdated([FS EXCEPT !.conda_hash_txt = m, !.conda_lock = l],
                     frame.pip_hash) = frame.pip_changed

\* C3 as stated: each staleness check reports current exactly when the
\* subsystem's marker exists and equals the hash embedded in its lock
\* manifest, stale when the marker differs or is missing, and does not depend
\* on the other subsystem's files.
StalenessCheckExact ==
    Compared =>
        /\ frame.conda_changed = ~MarkerMatches(conda_hash_txt, conda_lock[Platform])
        /\ frame.pip_changed = ~MarkerMatches(pip_hash_txt, pip_lock)
        /\ StalenessIndependent

\* C3 amended: for a subsystem whose lock manifest exists the staleness check
\* reports current exactly when the marker exists and equals the manifest's
\* embedded hash; without a pip lock manifest pip_outdated reports current
\* exactly when the pip marker is missing; neither result depends on the
\* other subsystem's marker or manifest.
StalenessCheckExactGivenManifest ==
    Compared =>
        /\ frame.conda_changed = ~MarkerMatches(conda_hash_txt, conda_lock[Platform])
        /\ pip_lock # NoFile => frame.pip_changed = ~MarkerMatches(pip_hash_txt, pip_lock)
        /\ pip_lock = NoFile => frame.pip_changed = (pip_hash_txt # NoFile)
        /\ StalenessIndependent

\* A pip marker that differs from the pip manifest's hash next to a conda
\* marker that matches.
StalenessWitness ==
    /\ Compared
    /\ pip_lock # NoFile /\ pip_hash_txt # NoFile
    /\ ~MarkerMatches(pip_hash_txt, pip_lock) /\ frame.pip_changed
    /\ MarkerMatches(conda_hash_txt, conda_lock[Platform]) /\ ~frame.conda_changed

CondaRuns == {i \in DOMAIN log : log[i].ev = "run" /\ log[i].sub = "conda"}

\* The conda step of this env_install is behind it.
CondaStepDone ==
    /\ frame.cmd = "install"
    /\ \/ frame.pc \in {"conda_write", "pip", "pip_write", "done"}
       \/ frame.pc = "exit" /\ frame.failed # ""

\* C4: in env_install with prune unspecified, when both subsystems are stale
\* conda is installed in 'create' mode.
BothStaleRecreates ==
    (CondaStepDone /\ frame.prune_arg = None /\ frame.conda_changed /\ frame.pip_changed)
        => /\ CondaRuns # {}
           /\ \A i \in CondaRuns : log[i].arg = "create"

\* Both stale over an existing prefix with both markers: the installer ran.
BothStaleWitness ==
    /\ frame.cmd = "install" /\ frame.pc = "conda_write"
    /\ frame.prune_arg = None /\ frame.conda_changed /\ frame.pip_changed
    /\ conda_hash_txt # NoFile /\ pip_hash_txt # NoFile
    /\ \E i \in CondaRuns : log[i].prefix

\* C5 as stated: with prune unspecified and an existing prefix, unless both
\* subsystems are stale, a conda install step that runs is 'install'.
NotBothStaleUpdates ==
    (frame.cmd = "install" /\ frame.prune_arg = None
        /\ ~(frame.conda_changed /\ frame.pip_changed))
        => \A i \in CondaRuns : log[i].prefix => log[i].arg = "install"

\* C5 amended: with prune unspecified and an existing prefix, a conda install
\* step that runs is 'create' exactly when pip is stale, or conda is stale
\* and the specification has pip requirements; otherwise it is 'install'.
PruneDecidesMode ==
    (frame.cmd = "install" /\ frame.prune_arg = None)
        => \A i \in CondaRuns :
             log[i].prefix =>
                 log[i].arg = IF frame.pip_changed \/ (frame.conda_changed /\ frame.use_pip)
                              THEN "create" ELSE "install"

\* Conda alone is stale, the specification has no pip requirements and the
\* prefix exists: the installer ran as an incremental update.
UpdateWitness ==
    /\ frame.cmd = "install" /\ frame.prune_arg = None /\ ~frame.force
    /\ frame.conda_changed /\ ~frame.pip_changed /\ ~frame.use_pip
    /\ \E i \in CondaRuns : log[i].prefix /\ log[i].arg = "install" /\ log[i].ok

Writes == {i \in DOMAIN log : log[i].ev = "write"}

Marker(sub) == IF sub = "conda" THEN conda_hash_txt ELSE pip_hash_txt

\* C6: a subsystem's marker is written only after that subsystem's
\* installer returned success, the write is the last step of that subsystem's
\* install, and the value written is the hash embedded in the installed lock
\* manifest.
MarkerWrittenAfterSuccess ==
    /\ \A i \in Writes :
         /\ i > 1
         /\ log[i - 1].ev = "run" /\ log[i - 1].sub = log[i].sub /\ log[i - 1].ok
         /\ log[i - 1].lock_file # NoFile
         /\ log[i].arg = EmbeddedHash(log[i - 1].lock_file)
         /\ \A j \in DOMAIN log : j > i => log[j].sub # log[i].sub
    /\ (log # <<>> /\ log[Len(log)].ev = "write")
         => /\ Marker(log[Len(log)].sub) # NoFile
            /\ MarkerText(Marker(log[Len(log)].sub)) = log[Len(log)].arg
    /\ \A i \in DOMAIN log :
         (log[i].ev = "run" /\ ~log[i].ok) => i = Len(log) /\ frame.pc = "exit"

\* Both markers were written in one env_install.
MarkerWrittenWitness ==
    /\ frame.cmd = "install" /\ frame.pc = "done"
    /\ \E i, j \in Writes : i < j /\ log[i].sub = "conda" /\ log[j].sub = "pip"
    /\ MarkerMatches(conda_hash_txt, conda_lock[Platform])
    /\ MarkerMatches(pip_hash_txt, pip_lock)

\* C7: after an installer exited non-zero, the next env_install over the
\* same lock files, without force and with prune unspecified, evaluates that
\* subsystem as stale.
FailedInstallRetried ==
    (Compared /\ ~frame.force /\ frame.prune_arg = None
        /\ frame.conda_lock_at_start /\ (frame.use_pip => frame.pip_lock_at_start))
        => /\ frame.retry = "conda" => frame.conda_changed
           /\ frame.retry = "pip" => frame.pip_changed

\* The last log entry is a successful run of sub's installer and the step
\* appends the write of sub's marker.
SuccessfulInstallEnds(sub) ==
    /\ log # <<>>
    /\ log[Len(log)].ev = "run" /\ log[Len(log)].sub = sub /\ log[Len(log)].ok
    /\ Len(log') = Len(log) + 1
    /\ log'[Len(log')].ev = "write" /\ log'[Len(log')].sub = sub

\* C8 as stated: over lock and install operations a marker file changes
\* only by the write at the end of a successful install of its subsystem.
MarkersChangeOnlyByInstallWrite ==
    [][frame.cmd \in {"lock", "install"} =>
          /\ conda_hash_txt' # conda_hash_txt => SuccessfulInstallEnds("conda")
          /\ pip_hash_txt' # pip_hash_txt => SuccessfulInstallEnds("pip")]_vars

\* C8 amended: over lock and install operations a marker file changes only
\* by the write at the end of a successful install of its subsystem, except
\* that env_install deletes the pip marker when no pip lock manifest exists.
MarkersChangeByInstallWriteOrPipRemoval ==
    [][frame.cmd \in {"lock", "install"} =>
          /\ conda_hash_txt' # conda_hash_txt => SuccessfulInstallEnds("conda")
          /\ pip_hash_txt' # pip_hash_txt =>
                \/ SuccessfulInstallEnds("pip")
                \/ /\ frame.cmd = "install" /\ frame.pc = "pip"
                   /\ pip_lock = NoFile
                   /\ pip_hash_txt' = NoFile]_vars

\* env_install has just deleted the pip marker.
PipMarkerRemovedWitness ==
    /\ frame.cmd = "install" /\ frame.pc = "done"
    /\ log # <<>> /\ log[Len(log)].ev = "remove"
    /\ pip_hash_txt = NoFile /\ pip_lock = NoFile

\* env_install started without a lock manifest it needs.
LockMissingAtStart ==
    /\ frame.cmd = "install"
    /\ ~frame.conda_lock_at_start \/ (frame.use_pip /\ ~frame.pip_lock_at_start)

\* C9: when env_install starts without the conda lock manifest of the
\* platform, or without the pip lock manifest while the specification has
\* pip requirements, env_lock completes before any staleness comparison and
\* before any installer runs; no installer runs without its lock manifest.
LockBeforeInstallDecision ==
    /\ LockMissingAtStart =>
         \A i \in DOMAIN log :
            log[i].ev \in {"compare", "run", "write", "remove"}
                => \E j \in 1..(i - 1) : log[j].ev = "lock_done"
    /\ \A i \in DOMAIN log : log[i].ev = "run" => log[i].lock_file # NoFile

\* env_install locked first, then compared, then ran both installers.
LockBeforeInstallWitness ==
    /\ LockMissingAtStart
    /\ \E j, c, r, q \in DOMAIN log :
         /\ j < c /\ c < r /\ r < q
         /\ log[j].ev = "lock_done" /\ log[c].ev = "compare"
         /\ log[r].ev = "run" /\ log[r].sub = "conda"
         /\ log[q].ev = "run" /\ log[q].sub = "pip"

\* ------------------------------------------------ claims on _env_lock_conda
\* What create_lockfile_from_spec returns for the specification file and
\* a platform, when it returns.
WholeManifests(platform) ==
    LET ls == ParseEnvironmentFile(spec_data, platform)
    IN  {c.lines : c \in {r \in {CreateLockfileFromSpec("env", FALSE, ls,
                                     SolveSpecsForArch(ls, cached), {}) :
                                 cached \in BOOLEAN} : r.err = ""}}

\* C20: a step of _env_lock_conda that fails while locking a platform (the
\* solver exits or the compiler raises) leaves the lock file of that
\* platform as it was, and a step that changes a lock file removes it or
\* leaves a whole compiled manifest in it: lock files start absent, so none
\* ever holds part of a manifest.
LockFailureKeepsLockFile ==
    [][/\ (frame.pc = "lock_platform" /\ frame'.pc = "exit") =>
              LET p == SpecPlatforms(spec_data)[frame.lock_i]
              IN  conda_lock'[p] = conda_lock[p]
       /\ \A p \in PLATFORMS :
              conda_lock'[p] # conda_lock[p] =>
                  \/ conda_lock'[p] = NoFile
                  \/ conda_lock'[p][1] \in WholeManifests(p)]_vars

\* The solver failed while locking a platform that had a lock file, after
\* another platform was locked in the same run.
LockFailureWitness ==
    /\ frame.pc = "exit"
    /\ Len(log) >= 2
    /\ log[Len(log)].ev = "solver_failed"
    /\ log[Len(log) - 1].ev = "locked"
    /\ conda_lock[log[Len(log)].arg] # NoFile

\* The running env_install follows a completed env_install directly, with
\* force not set and prune unspecified.
RepeatedInstall ==
    /\ frame.cmd = "install"
    /\ frame.after_success
    /\ ~frame.force
    /\ frame.prune_arg = None

\* C28: no step of an env_install that directly follows a completed one,
\* with force not set, prune unspecified and the same files, runs an
\* installer or writes or deletes a marker file.
RepeatedInstallDoesNothing ==
    [][RepeatedInstall =>
          /\ conda_hash_txt' = conda_hash_txt
          /\ pip_hash_txt' = pip_hash_txt
          /\ prefix_exists' = prefix_exists
          /\ \A i \in DOMAIN log' : log'[i].ev \notin {"run", "write", "remove"}]_vars

\* Such an env_install has returned, in an environment with both markers.
RepeatedInstallWitness ==
    /\ RepeatedInstall
    /\ frame.pc = "done"
    /\ conda_hash_txt # NoFile
    /\ pip_hash_txt # NoFile

CondaLockCompleted == frame.pc = "lock_pip"

CondaLockFilesMatchPlatforms ==
    CondaLockCompleted =>
        \A p \in PLATFORMS :
            IF InSeq(p, SpecPlatforms(spec_data))
            THEN /\ conda_lock[p] # NoFile
                 /\ CondaLockHash(conda_lock[p]) =
                        Ok(EnvHash(LockSpecification(spec_data.dependencies,
                                                     spec_data.channels, p)))
            ELSE conda_lock[p] = NoFile

\* `coman lock` has rewritten the lock files after linux-64 was taken off
\* the list: the prefix still holds the marker of an install from the
\* linux-64 lock file that the first loop has now removed.
CondaLockFilesWitness ==
    /\ CondaLockCompleted
    /\ frame.cmd = "lock"
    /\ SpecPlatforms(spec_data) = <<"osx-64">>
    /\ conda_hash_txt # NoFile
    /\ conda_lock["linux-64"] = NoFile
    /\ conda_lock["osx-64"] # NoFile

\* ============================== SpecParse: parse_unsatisfiable_error
RECURSIVE SplitLines(_)
\* str.splitlines(): the text is a token sequence, "\n" ends a line
SplitLines(text) ==
    IF text = <<>> THEN <<>>
    ELSE IF \A i \in DOMAIN text : text[i] # "\n" THEN <<text>>
    ELSE LET n == CHOOSE i \in DOMAIN text :
                      text[i] = "\n" /\ \A j \in 1..(i - 1) : text[j] # "\n"
         IN  <<SubSeq(text, 1, n - 1)>> \o SplitLines(SubSeq(text, n + 1, Len(text)))

RECURSIVE JoinLines(_)
\* "\n".join(lines) on token lines
JoinLines(lines) ==
    IF lines = <<>> THEN <<>>
    ELSE IF Len(lines) = 1 THEN lines[1]
    ELSE lines[1] \o <<"\n">> \o JoinLines(Tail(lines))

\* Tokens of a solver message.  \w+ matches a Word whole and a Hyphenated
\* name up to its first hyphen; [a-zA-Z0-9_-]+ matches both whole.
Words == {"python", "numpy", "glibc", "connection", "timed", "out"}
Hyphenated == {"libgcc-ng"}
WordPrefix(t) == IF t = "libgcc-ng" THEN "libgcc" ELSE t

\* \[version='([^']+)'\] and (==?[^ ]+)
BracketVersions == {"[version='>=2.7']", "[version='>=2.17']"}
EqVersions == {"=3.8", "==1.10"}
Qualifiers == BracketVersions \cup EqVersions

\* The group a qualifier captures.
QualifierGroup(t) ==
    IF t = "[version='>=2.7']" THEN ">=2.7"
    ELSE IF t = "[version='>=2.17']" THEN ">=2.17"
    ELSE t

\* str.replace("The following", " The following")
ReplaceTheFollowing(line) ==
    [i \in DOMAIN line |-> IF line[i] = "The following" THEN " The following" ELSE line[i]]

\* spec_re.match(line): None, or the groups with spec_ver = group 3 or 4 and
\* dep_ver = group 6 or 7.  The requiring part is optional as a whole: it
\* needs a name, a qualifier and " -> " in a row, and a word after it.
SpecReMatch(line) ==
    LET compat == line # <<>> /\ line[1] = "- "
        a == IF compat THEN 2 ELSE 1
        named(i) == Len(line) >= i /\ line[i] \in Words \cup Hyphenated
        has_spec == /\ named(a)
                    /\ Len(line) >= a + 2
                    /\ line[a + 1] \in Qualifiers
                    /\ line[a + 2] = " -> "
                    /\ named(a + 3)
        b == IF has_spec THEN a + 3 ELSE a
    IN  IF ~named(b) THEN None
        ELSE Some([compat |-> IF compat THEN Some("- ") ELSE None,
                   spec_name |-> IF has_spec THEN Some(line[a]) ELSE None,
                   spec_ver |-> IF has_spec THEN Some(QualifierGroup(line[a + 1])) ELSE None,
                   dep_name |-> WordPrefix(line[b]),
                   dep_ver |-> IF line[b] \in Words /\ Len(line) > b
                                  /\ line[b + 1] \in Qualifiers
                               THEN Some(QualifierGroup(line[b + 1])) ELSE None])

\* A loop body that never takes the `continue`.
NeverUnqualified(m) == FALSE

\* `if spec_ver is None and dep_ver is None: continue`
Unqualified(m) == m.spec_ver = None /\ m.dep_ver = None

\* A loop body that takes every requiring line for a "- " line.
CompatAlways(m) == TRUE

\* `if compat is not None:`
Compat(m) == m.compat # None

\* The index of dep_name in the dict, 0 when it is not a key.
ConflictIndex(graph, name) ==
    IF \E i \in DOMAIN graph : graph[i].name = name
    THEN CHOOSE i \in DOMAIN graph : graph[i].name = name
    ELSE 0

\* One iteration of the loop of parse_unsatisfiable_error on (conflicts,
\* incompatible): st is [conflicts, incompatible].
ParseLine(st, line) ==
    LET found == SpecReMatch(ReplaceTheFollowing(Strip(line)))
    IN  IF found = None THEN st
        ELSE LET m == found[1] IN
             IF Unqualified(m) THEN st
             ELSE LET fresh == [name |-> m.dep_name, spec |-> None,
                                children |-> <<>>, compatible |-> TRUE]
                      graph == IF ConflictIndex(st.conflicts, m.dep_name) = 0
                               THEN Append(st.conflicts, fresh) ELSE st.conflicts
                      k == ConflictIndex(graph, m.dep_name)
                      child == [child_name |-> m.spec_name[1], child_ver |-> m.spec_ver[1],
                                dep_name |-> m.dep_name, dep_ver |-> m.dep_ver]
                  IN  IF m.spec_name = None
                      THEN [conflicts |-> [graph EXCEPT ![k].spec = m.dep_ver],
                            incompatible |-> st.incompatible]
                      ELSE [conflicts |->
                                [graph EXCEPT
                                    ![k].compatible = IF Compat(m) THEN FALSE ELSE @,
                                    ![k].children = Append(@, child)],
                            incompatible |->
                                IF Compat(m) THEN st.incompatible \cup {m.spec_name[1]}
                                ELSE st.incompatible]

RECURSIVE ParseLines(_, _)
ParseLines(st, lines) ==
    IF lines = <<>> THEN st ELSE ParseLines(ParseLine(st, Head(lines)), Tail(lines))

\* parse_unsatisfiable_error(msg): the dict as its items in insertion order
ParseUnsatisfiableError(message) ==
    ParseLines([conflicts |-> <<>>, incompatible |-> {}], SplitLines(message)).conflicts

\* Lines a solver message is made of.
MessageLines ==
    {<<"connection", " ", "timed", " ", "out">>,
     <<"The following", " ", "python">>,
     <<>>,
     <<"python", "=3.8">>,
     <<"numpy", "==1.10", " -> ", "python", "[version='>=2.7']">>,
     <<"numpy", "==1.10", " -> ", "python">>,
     <<" ", " ", "- ", "python", "=3.8", " -> ", "glibc", "[version='>=2.17']">>,
     <<"- ", "glibc", "[version='>=2.17']">>,
     <<"python", "=3.8", " -> ", "libgcc-ng", "[version='>=2.7']">>,
     <<"- ", "numpy", " -> ", "python", "=3.8">>}

Messages == {JoinLines(lines) : lines \in SeqsUpTo(MessageLines, MaxLines)}

ParseInit ==
    /\ msg \in Messages
    /\ msg_i = 1
    /\ conflicts = <<>>
    /\ incompatible = {}
    /\ HashIdle /\ CompileIdle /\ InstallIdle
    /\ SolveIdle /\ FilterIdle /\ DiffIdle
    /\ NameIdle /\ EditIdle

\* `for line in msg.splitlines():` one iteration
ParseNextLine ==
    /\ msg_i \in DOMAIN SplitLines(msg)
    /\ LET st == ParseLine([conflicts |-> conflicts, incompatible |-> incompatible],
                           SplitLines(msg)[msg_i])
       IN  /\ conflicts' = st.conflicts
           /\ incompatible' = st.incompatible
    /\ msg_i' = msg_i + 1
    /\ UNCHANGED <<msg, hash_vars, compile_vars, install_vars,
                   solve_vars, filter_vars, diff_vars,
                   name_vars, edit_vars>>

ParseNext == ParseNextLine

SpecParse == ParseInit /\ [][ParseNext]_vars

\* `return conflicts` has been reached.
ParseReturned == msg_i = Len(SplitLines(msg)) + 1

HasQualifier(line) == \E i \in DOMAIN line : line[i] \in Qualifiers

\* C14: parse_unsatisfiable_error returns a conflict graph for every input
\* without raising; as long as no line read so far carries a version
\* qualifier the graph is empty, so a message without a qualified line
\* yields the empty graph.
UnqualifiedLinesContributeNothing ==
    /\ msg_i \in 1..(Len(SplitLines(msg)) + 1)
    /\ \A k \in DOMAIN conflicts :
         /\ conflicts[k].compatible \in BOOLEAN
         /\ conflicts[k].name \in {WordPrefix(t) : t \in Words \cup Hyphenated}
         /\ \A j \in DOMAIN conflicts : conflicts[j].name = conflicts[k].name => j = k
    /\ (\A j \in 1..(msg_i - 1) : ~HasQualifier(SplitLines(msg)[j])) => conflicts = <<>>
    /\ ParseReturned => conflicts = ParseUnsatisfiableError(msg)

\* "connection timed out" and a line of the grammar without a qualifier
\* have been parsed into the empty graph.
UnrelatedMessageWitness ==
    /\ ParseReturned
    /\ SplitLines(msg) = << <<"connection", " ", "timed", " ", "out">>,
                            <<"The following", " ", "python">> >>
    /\ conflicts = <<>>

\* The stripped line names `name`, with a qualifier, as the requiring package.
Requires(line, name) ==
    \E i \in DOMAIN line :
        /\ line[i] = name
        /\ Len(line) >= i + 2 /\ line[i + 1] \in Qualifiers /\ line[i + 2] = " -> "

\* The stripped line begins with "- " and names `name` as the package
\* required by a qualified requiring package.
DashRequired(line, name) ==
    /\ Len(line) >= 5
    /\ line[1] = "- " /\ line[2] \in Words \cup Hyphenated
    /\ line[3] \in Qualifiers /\ line[4] = " -> "
    /\ line[5] \in Words \cup Hyphenated /\ WordPrefix(line[5]) = name

\* C15 as stated: an entry has compatible=false exactly when its package
\* appears as the requiring package, with a qualifier, on some line.
IncompatibleWhenRequiring ==
    ParseReturned =>
        \A k \in DOMAIN conflicts :
            conflicts[k].compatible = FALSE
                <=> \E j \in DOMAIN SplitLines(msg) :
                       Requires(Strip(SplitLines(msg)[j]), conflicts[k].name)

\* C15 amended: an entry has compatible=false exactly when some line that
\* begins with "- " names its package as the one required by a requiring
\* package with a qualifier; being the requiring package changes nothing in
\* a package's own entry.
IncompatibleWhenDashRequired ==
    ParseReturned =>
        \A k \in DOMAIN conflicts :
            conflicts[k].compatible = FALSE
                <=> \E j \in DOMAIN SplitLines(msg) :
                       DashRequired(Strip(SplitLines(msg)[j]), conflicts[k].name)

\* python requires on one line and is requested on another and stays
\* compatible; glibc is required on a "- " line and is not.
IncompatibleWitness ==
    /\ ParseReturned
    /\ \E k, g \in DOMAIN conflicts :
         /\ conflicts[k].name = "python" /\ conflicts[k].compatible
         /\ conflicts[g].name = "glibc" /\ ~conflicts[g].compatible
    /\ \E j \in DOMAIN SplitLines(msg) : Requires(Strip(SplitLines(msg)[j]), "python")

\* ============================== SpecSolve: solve_specs_for_arch
\* click.style(text, fg=...): the text between a colour code and a reset
Style(text, fg) == "<" \o fg \o ">" \o text \o "<reset>"

\* COLORS["name"], COLORS["version"]
ColorName == "green"
ColorVersion == "blue"

\* The dict json.loads gives for the output of `conda create --json`: a
\* key that is absent is None.
Res(exception_name, message, packages, actions) ==
    [exception_name |-> exception_name, message |-> message,
     packages |-> packages, actions |-> actions]

\* What conda prints: a dry-run result, or an error object.  conda gives
\* every PackagesNotFoundError its 'packages' and every UnsatisfiableError
\* its 'message'.
SolverObjects ==
    {Res(None, None, None, Some(SolveSpecsForArch(ls, FALSE))) :
        ls \in {LockSpecification(<<"python >=3.8">>, <<"conda-forge">>, "linux-64")}}
    \cup {Res(Some("PackagesNotFoundError"), Some(m), Some(pkgs), None) :
            m \in {<<"connection", " ", "timed", " ", "out">>},
            pkgs \in {<<>>, <<"scipy">>, <<"scipy", "numpy =1.20">>}}
    \cup {Res(Some("UnsatisfiableError"), Some(m), None, None) : m \in Messages}
    \cup {Res(e, m, None, None) :
            e \in {None, Some("CondaHTTPError")},
            m \in {None, Some(<<>>), Some(<<"connection", " ", "timed", " ", "out">>),
                   Some(<<"python", "=3.8">>)}}

\* p.stdout: text that json.loads accepts (its value is res) or rejects.
Stdouts ==
    {[json |-> TRUE, text |-> <<>>, res |-> r] : r \in SolverObjects}
    \cup {[json |-> FALSE, text |-> t, res |-> Res(None, None, None, None)] :
            t \in {<<>>, <<" ", "Segmentation", " ", "fault", "\n">>}}

ReturnCodes == {0, 1}

\* json.loads(p.stdout)
JsonLoads(stdout) == IF stdout.json THEN Ok(stdout.res) ELSE Raise("JSONDecodeError", stdout.res)

\* json.dumps(res, indent=2): the keys that are present
JsonDumps(res) ==
    "{" \o (IF res.exception_name # None
            THEN "\n  \"exception_name\": \"" \o res.exception_name[1] \o "\"" ELSE "")
        \o (IF res.message # None
            THEN "\n  \"message\": \"" \o Str(res.message[1]) \o "\"" ELSE "")
        \o (IF res.packages # None
            THEN "\n  \"packages\": " \o JsonList(res.packages[1]) ELSE "")
        \o (IF res.actions # None
            THEN "\n  \"actions\": {\"LINK\": "
                 \o JsonList([i \in DOMAIN res.actions[1].LINK |-> res.actions[1].LINK[i].name])
                 \o "}" ELSE "")
        \o "\n}"

\* What a call leaves behind: the value returned (None when it exited),
\* the exit code (None when it returned) and what it printed.
Outcome(returned, exit, stdout, stderr) ==
    [returned |-> returned, exit |-> exit, stdout |-> stdout, stderr |-> stderr]

\* A solve_specs_for_arch without the return code test.
SolverNeverFailed(returncode) == FALSE

\* `if p.returncode != 0:`
SolverFailed(returncode) == returncode # 0

\* A solve_specs_for_arch without the PackagesNotFoundError branch.
NeverPackagesNotFound(exception_name) == FALSE

\* `if exception_name == "PackagesNotFoundError":`
IsPackagesNotFound(exception_name) == exception_name = Some("PackagesNotFoundError")

\* A report that takes every parse result for a useful one.
GraphAlwaysUseful(res_) == TRUE

\* `if res_:`
GraphUseful(res_) == res_ # <<>>

\* The first line of every report of a failed solve.
FailureHeader(exception_name) ==
    Style("\nFailed to lock the environment", "red")
        \o (IF Truthy(exception_name)
            THEN " " \o Style("[" \o exception_name[1] \o "]", "bright_white") ELSE "")
        \o "\n"

\* The PackagesNotFoundError report.
PackagesReport(pkg_names) ==
    <<"The following packages are not available from current channels:\n">>
        \o [i \in DOMAIN pkg_names |-> "- " \o pkg_names[i]]

\* The lines printed for one entry of the conflict graph.
EntryReport(info) ==
    <<(IF info.compatible THEN "Cannot determine version of" ELSE "Cannot find package")
        \o " " \o Style(info.name, IF info.compatible THEN ColorName ELSE "red")
        \o (IF Truthy(info.spec) THEN " " \o Style(info.spec[1], ColorVersion) ELSE "")>>
    \o [i \in DOMAIN info.children |->
          "- " \o Style(info.children[i].child_name, ColorName)
               \o " " \o Style(info.children[i].child_ver, ColorVersion)
               \o " requires "
               \o Style(info.children[i].dep_name, IF info.compatible THEN ColorName ELSE "red")
               \o " " \o Style(IF Truthy(info.children[i].dep_ver)
                               THEN info.children[i].dep_ver[1] ELSE "", ColorVersion)]
    \o <<"">>

RECURSIVE EntriesReport(_)
EntriesReport(graph) ==
    IF graph = <<>> THEN <<>> ELSE EntryReport(Head(graph)) \o EntriesReport(Tail(graph))

RECURSIVE SeqOfSet(_)
SeqOfSet(S) == IF S = {} THEN <<>> ELSE LET x == CHOOSE x \in S : TRUE
                                       IN  <<x>> \o SeqOfSet(S \ {x})

\* The closing line about the packages whose entry is not compatible.
RootCauseReport(graph) ==
    LET names == Sorted(SeqOfSet({graph[i].name : i \in {k \in DOMAIN graph : ~graph[k].compatible}}))
    IN  IF Len(names) = 1
        THEN <<"The root cause may be that " \o Style(names[1], "red")
               \o " is unavailable on this platform">>
        ELSE IF Len(names) > 1
        THEN <<"The root cause may be that these packages are unavailble on this platform: "
               \o Join(", ", [i \in DOMAIN names |-> Style(names[i], "red")])>>
        ELSE <<>>

\* The UnsatisfiableError report of a useful conflict graph.
ConflictReport(graph) == EntriesReport(graph) \o RootCauseReport(graph)

\* solve_specs_for_arch from the return of subprocess.run on.
SolveOutcome(p) ==
    LET loaded == JsonLoads(p.stdout)
        res == loaded.val
        header == <<FailureHeader(res.exception_name)>>
        res_ == ParseUnsatisfiableError(res.message[1])
    IN  IF loaded.err # ""
        THEN Outcome(None, Some(1), <<Str(Strip(p.stdout.text))>>,
                     <<Style("\nFailed to lock the environment\n", "red")>>)
        ELSE IF ~SolverFailed(p.returncode) THEN Outcome(Some(res), None, <<>>, <<>>)
        ELSE IF IsPackagesNotFound(res.exception_name)
        THEN Outcome(None, Some(1), <<>>, header \o PackagesReport(res.packages[1]))
        ELSE IF res.exception_name = Some("UnsatisfiableError") /\ GraphUseful(res_)
        THEN Outcome(None, Some(1), <<>>, header \o ConflictReport(res_))
        ELSE IF res.message # None
        THEN Outcome(None, Some(1), <<>>, header \o <<Str(res.message[1])>>)
        ELSE Outcome(None, Some(1), <<>>, header \o <<JsonDumps(res)>>)

SolveInit ==
    /\ proc \in [returncode : ReturnCodes, stdout : Stdouts]
    /\ outcome = None
    /\ HashIdle /\ CompileIdle /\ InstallIdle
    /\ ParseIdle /\ FilterIdle /\ DiffIdle
    /\ NameIdle /\ EditIdle

\* solve_specs_for_arch returns or exits.
Solve ==
    /\ outcome = None
    /\ outcome' = Some(SolveOutcome(proc))
    /\ UNCHANGED <<proc, hash_vars, compile_vars, install_vars,
                   parse_vars, filter_vars, diff_vars,
                   name_vars, edit_vars>>

SolveNext == Solve

SpecSolve == SolveInit /\ [][SolveNext]_vars

\* The solver exited non-zero and printed JSON, and the call is over.
FailedWithJson == outcome # None /\ proc.returncode # 0 /\ proc.stdout.json

\* C11: solve_specs_for_arch returns a dry-run result if and only if the
\* solver exited with status zero and its output parsed as JSON; otherwise it
\* exits with a failure status and returns nothing.
SolverReturnsIffSuccess ==
    outcome # None =>
        /\ outcome[1].returned # None <=> (proc.returncode = 0 /\ proc.stdout.json)
        /\ outcome[1].returned # None =>
              /\ outcome[1].returned = Some(proc.stdout.res)
              /\ outcome[1].exit = None
              /\ outcome[1].stdout = <<>> /\ outcome[1].stderr = <<>>
        /\ outcome[1].returned = None =>
              /\ outcome[1].exit # None /\ outcome[1].exit[1] # 0
              /\ outcome[1].stderr # <<>>

\* A dry-run result was returned.
SolverReturnedWitness ==
    /\ outcome # None
    /\ outcome[1].returned # None
    /\ outcome[1].returned[1].actions # None
    /\ outcome[1].returned[1].actions[1].LINK # <<>>

\* The lines of the report after its header line.
ReportBody == Tail(outcome[1].stderr)

\* The report names every package of the list, in order, and nothing else.
NamesPackages(body, pkgs) ==
    /\ Len(body) = Len(pkgs) + 1
    /\ body[1] = "The following packages are not available from current channels:\n"
    /\ \A i \in DOMAIN pkgs : body[i + 1] = "- " \o pkgs[i]

\* The report is the raw message if there is one and else the raw JSON.
RawReport(body, res) ==
    IF res.message # None THEN body = <<Str(res.message[1])>>
    ELSE body = <<JsonDumps(res)>>

UsefulUnsatisfiable(res) ==
    /\ res.exception_name = Some("UnsatisfiableError")
    /\ ParseUnsatisfiableError(res.message[1]) # <<>>

UnsatisfiableDegradesToRawMessage ==
    (FailedWithJson /\ proc.stdout.res.exception_name = Some("UnsatisfiableError")) =>
        LET graph == ParseUnsatisfiableError(proc.stdout.res.message[1])
            raw == Str(proc.stdout.res.message[1])
        IN  /\ graph = <<>> => ReportBody = <<raw>>
            /\ graph # <<>> =>
                  /\ Len(ReportBody) >= 2
                  /\ ReportBody = ConflictReport(graph)
                  /\ \A i \in DOMAIN ReportBody : ReportBody[i] # raw

\* An UnsatisfiableError whose message parses into nothing was reported raw.
UnsatisfiableRawWitness ==
    /\ FailedWithJson
    /\ proc.stdout.res.exception_name = Some("UnsatisfiableError")
    /\ proc.stdout.res.message = Some(<<"connection", " ", "timed", " ", "out">>)
    /\ ReportBody = <<"connection timed out">>

\* The lines of the report that open the entry of a package.
EntryLines(info) == {i \in DOMAIN ReportBody : ReportBody[i] = EntryReport(info)[1]}

\* C26: in the structured report of an UnsatisfiableError the entry of
\* every package with compatible = false comes before the entry of every
\* package with compatible = true.
IncompatibleReportedFirst ==
    (FailedWithJson /\ UsefulUnsatisfiable(proc.stdout.res)) =>
        LET graph == ParseUnsatisfiableError(proc.stdout.res.message[1])
        IN  \A a \in DOMAIN graph, b \in DOMAIN graph :
                (~graph[a].compatible /\ graph[b].compatible) =>
                    \A i \in EntryLines(graph[a]), j \in EntryLines(graph[b]) : i < j

\* ============================== SpecFilter: filter_platform_selectors
\* platform_sel
PlatformSel ==
    [p \in {"linux-64", "linux-aarch64", "linux-ppc64le", "osx-64", "osx-arm64", "win-64"} |->
        IF p = "linux-64" THEN {"linux64", "unix", "linux"}
        ELSE IF p = "linux-aarch64" THEN {"aarch64", "unix", "linux"}
        ELSE IF p = "linux-ppc64le" THEN {"ppc64le", "unix", "linux"}
        ELSE IF p = "osx-64" THEN {"osx", "osx64", "unix"}
        ELSE IF p = "osx-arm64" THEN {"arm64", "osx", "unix"}
        ELSE {"win", "win64"}]

\* The platforms filter_platform_selectors is called with: those of
\* platform_sel and one it does not list.
TargetPlatforms == DOMAIN PlatformSel \cup {"linux-32"}

\* The position of "[" in a line that holds one bracket group
\* "[", expression, "]", 0 without one.
BracketAt(line) ==
    IF \E b \in DOMAIN line : line[b] = "[" /\ Len(line) >= b + 2 /\ line[b + 2] = "]"
    THEN CHOOSE b \in DOMAIN line : line[b] = "[" /\ Len(line) >= b + 2 /\ line[b + 2] = "]"
    ELSE 0

\* sel_pat.match(line): None, or group 3.  The bracket group needs a
\* character before it; text after it is allowed only when a "#" stands
\* between the first character and the bracket, and holds no parenthesis.
SelPatMatch(line) ==
    LET b == BracketAt(line)
        trailing == SubSeq(line, b + 3, Len(line))
    IN  IF b <= 1 THEN None
        ELSE IF trailing = <<>> THEN Some(line[b + 1])
        ELSE IF /\ \E h \in 2..(b - 1) : line[h] = "#"
                /\ \A i \in DOMAIN trailing : trailing[i] \notin {"(", ")"}
        THEN Some(line[b + 1])
        ELSE None

\* A selector test that knows no aliases.
SelectorIsPlatformId(cond, platform) == Ok(cond = platform)

\* `cond == platform or cond in platform_sel[platform]`: KeyError for a
\* platform that platform_sel does not list.
SelectorMatches(cond, platform) ==
    IF cond = platform THEN Ok(TRUE)
    ELSE IF platform \notin DOMAIN PlatformSel THEN Raise("KeyError", FALSE)
    ELSE Ok(cond \in PlatformSel[platform])

\* The body of the loop for one line: what it yields (None: nothing) or
\* raises.
FilterLine(line, platform) ==
    IF LStrip(line) # <<>> /\ Head(LStrip(line)) = "#" THEN Ok(None)
    ELSE IF SelPatMatch(line) # None
    THEN LET keep == SelectorMatches(SelPatMatch(line)[1], platform)
         IN  IF keep.err # "" THEN Raise(keep.err, None)
             ELSE IF keep.val THEN Ok(Some(line)) ELSE Ok(None)
    ELSE Ok(Some(line))

\* Lines of a specification file.
ContentLines ==
    {<<"foo =1.0">>,
     <<"foo =1.0", " ", " ", "#", " ", "[", "linux64", "]">>,
     <<"bar", " ", "[", "osx", "]">>,
     <<" ", "#", " ", "comment">>,
     <<"#", " ", "[", "linux64", "]">>,
     <<"baz", " ", "[", "sparc", "]">>,
     <<"qux", " ", "[", "linux-64", "]">>,
     <<"foo", " ", "[", "unix", "]", " ", "bar">>,
     <<"foo", " ", "#", " ", "[", "win", "]", " ", "note">>,
     <<"foo", " ", "#", " ", "[", "win", "]", " ", "(", "note", ")">>}

Contents == {JoinLines(lines) : lines \in SeqsUpTo(ContentLines, MaxLines)}

FilterInit ==
    /\ content \in Contents
    /\ target_platform \in TargetPlatforms
    /\ content_i = 1
    /\ yielded = <<>>
    /\ raised = ""
    /\ HashIdle /\ CompileIdle /\ InstallIdle
    /\ SolveIdle /\ ParseIdle /\ DiffIdle
    /\ NameIdle /\ EditIdle

\* `for line in content.splitlines(keepends=False):` one iteration
FilterNextLine ==
    /\ raised = ""
    /\ content_i \in DOMAIN SplitLines(content)
    /\ LET r == FilterLine(SplitLines(content)[content_i], target_platform)
       IN  /\ raised' = r.err
           /\ yielded' = IF r.err = "" /\ r.val # None THEN Append(yielded, r.val[1])
                         ELSE yielded
    /\ content_i' = content_i + 1
    /\ UNCHANGED <<content, target_platform, hash_vars, compile_vars, install_vars,
                   solve_vars, parse_vars, diff_vars,
                   name_vars, edit_vars>>

FilterNext == FilterNextLine

SpecFilter == FilterInit /\ [][FilterNext]_vars

\* ------------------------------------------------ claims on SpecFilter
\* The lines the loop has gone through.
FilteredSoFar == SubSeq(SplitLines(content), 1, content_i - 1)

\* The first token after leading whitespace is "#".
CommentLine(line) == \E i \in DOMAIN line :
    /\ line[i] = "#"
    /\ \A j \in 1..(i - 1) : line[j] \in Whitespace

HasSelector(line) == SelPatMatch(line) # None

SelectorExpression(line) == SelPatMatch(line)[1]

\* The line without its selector and without the comment that holds it.
LineContent(line) ==
    IF ~HasSelector(line) THEN line
    ELSE LET k == CHOOSE i \in DOMAIN line :
                      /\ line[i] \in {"#", "["}
                      /\ \A j \in 1..(i - 1) : line[j] \notin {"#", "["}
         IN  RStrip(SubSeq(line, 1, k - 1))

\* What the claim says of one line on a known platform.
KeptOn(line, platform) ==
    /\ ~CommentLine(line)
    /\ HasSelector(line) =>
           \/ SelectorExpression(line) = platform
           \/ SelectorExpression(line) \in PlatformSel[platform]

\* C16: on a known target platform, the lines filter_platform_selectors has
\* yielded are, in their original order, exactly the lines gone through
\* that are no comment lines and that either have no selector or have one
\* whose expression is the platform id or one of the platform's aliases; no
\* error is raised.
FilterKeepsMatchingLinesInOrder ==
    target_platform \in DOMAIN PlatformSel =>
        LET OnTarget(line) == KeptOn(line, target_platform)
            kept == SelectSeq(FilteredSoFar, OnTarget)
        IN  /\ raised = ""
            /\ Len(yielded) = Len(kept)
            /\ \A k \in DOMAIN kept : LineContent(yielded[k]) = LineContent(kept[k])

\* A line with another platform's selector and a line with an alias of
\* linux-64 have been filtered on linux-64: only the second was yielded.
FilterWitness ==
    /\ target_platform = "linux-64"
    /\ content_i = Len(SplitLines(content)) + 1
    /\ SplitLines(content) =
           <<<<"bar", " ", "[", "osx", "]">>,
             <<"foo =1.0", " ", " ", "#", " ", "[", "linux64", "]">>>>
    /\ Len(yielded) = 1

\* C17: every line that was yielded carries neither a selector nor the
\* comment that held it; 'foo =1.0  # [linux64]' on linux-64 is yielded as
\* 'foo =1.0'.
MatchingSelectorStripped ==
    \A k \in DOMAIN yielded : Str(yielded[k]) = Str(LineContent(yielded[k]))

\* Platform ids and aliases.
KnownSelectors == DOMAIN PlatformSel \cup UNION {PlatformSel[p] : p \in DOMAIN PlatformSel}

\* C18: once a line whose selector expression is no platform id and no
\* alias has been gone through, an error has been raised.
UnknownSelectorRaises ==
    (\E i \in DOMAIN FilteredSoFar :
        /\ ~CommentLine(FilteredSoFar[i])
        /\ HasSelector(FilteredSoFar[i])
        /\ SelectorExpression(FilteredSoFar[i]) \notin KnownSelectors)
    => raised # ""

\* ============================== SpecDiff: the package diff of env_install
\* Entries of `conda list --json`, as far as they can differ.
PkgNames == {"numpy", "python"}
PkgVersions == {"1.21", "1.22"}
PkgBuilds == {"h0", "h1"}
PkgInfos == [name : PkgNames, version : PkgVersions, build_string : PkgBuilds]

\* What env_show returns: at most one entry per name, ordered by name
\* ("numpy" before "python"); [] for a prefix that does not exist.
Snapshots ==
    {<<>>}
    \cup {<<pkg>> : pkg \in PkgInfos}
    \cup {<<a, b>> : a \in {pkg \in PkgInfos : pkg.name = "numpy"},
                     b \in {pkg \in PkgInfos : pkg.name = "python"}}

PkgNamesOf(pkgs) == {pkgs[i].name : i \in DOMAIN pkgs}

\* old_pkgs[old_pkg_names.index(name)]
PkgByName(pkgs, name) ==
    pkgs[CHOOSE i \in DOMAIN pkgs :
             pkgs[i].name = name /\ \A j \in 1..(i - 1) : pkgs[j].name # name]

\* A row of the diff: the entry with its "old_version" key.
DiffRow(pkg, old_version, version) ==
    [name |-> pkg.name, build_string |-> pkg.build_string,
     old_version |-> old_version, version |-> version]

\* del_pkgs, add_pkgs and upd_pkgs with their old_version, or None when
\* the snapshots are equal.
PkgDiff(old, new) ==
    IF new = old THEN None
    ELSE LET Gone(pkg) == pkg.name \notin PkgNamesOf(new)
             Fresh(pkg) == pkg.name \notin PkgNamesOf(old)
             Changed(pkg) == pkg.name \in PkgNamesOf(old) /\ Count(pkg, old) = 0
             del_pkgs == SelectSeq(old, Gone)
             add_pkgs == SelectSeq(new, Fresh)
             upd_pkgs == SelectSeq(new, Changed)
         IN  Some([del_pkgs |-> [i \in DOMAIN del_pkgs |->
                                    DiffRow(del_pkgs[i], del_pkgs[i].version, "")],
                   add_pkgs |-> [i \in DOMAIN add_pkgs |->
                                    DiffRow(add_pkgs[i], "", add_pkgs[i].version)],
                   upd_pkgs |-> [i \in DOMAIN upd_pkgs |->
                                    DiffRow(upd_pkgs[i],
                                            PkgByName(old, upd_pkgs[i].name).version,
                                            upd_pkgs[i].version)]])

DiffInit ==
    /\ old_pkgs = <<>>
    /\ new_pkgs = <<>>
    /\ diff = <<>>
    /\ HashIdle /\ CompileIdle /\ InstallIdle
    /\ SolveIdle /\ ParseIdle /\ FilterIdle
    /\ NameIdle /\ EditIdle

\* env_install with show: the snapshot before, the install, the snapshot
\* after, the diff.
EnvInstallShow ==
    /\ \E old \in Snapshots, new \in Snapshots :
        /\ old_pkgs' = old
        /\ new_pkgs' = new
        /\ diff' = PkgDiff(old, new)
    /\ UNCHANGED <<hash_vars, compile_vars, install_vars,
                   solve_vars, parse_vars, filter_vars,
                   name_vars, edit_vars>>

DiffNext == EnvInstallShow

SpecDiff == DiffInit /\ [][DiffNext]_vars

\* ------------------------------------------------ claims on SpecDiff
DiffNames(rows) == {rows[i].name : i \in DOMAIN rows}

\* C19: the diff holds three pairwise disjoint sets of names: removed are
\* the names of the old snapshot missing from the new one, added the names
\* of the new snapshot missing from the old one, updated the names in both
\* whose version differs; a name in both with the same version is in none.
DiffByNameAndVersion ==
    diff # None =>
        LET d == diff[1]
            both == PkgNamesOf(old_pkgs) \cap PkgNamesOf(new_pkgs)
        IN  /\ DiffNames(d.del_pkgs) = PkgNamesOf(old_pkgs) \ PkgNamesOf(new_pkgs)
            /\ DiffNames(d.add_pkgs) = PkgNamesOf(new_pkgs) \ PkgNamesOf(old_pkgs)
            /\ DiffNames(d.upd_pkgs) =
                   {n \in both : PkgByName(old_pkgs, n).version # PkgByName(new_pkgs, n).version}
            /\ DiffNames(d.del_pkgs) \cap DiffNames(d.add_pkgs) = {}
            /\ DiffNames(d.del_pkgs) \cap DiffNames(d.upd_pkgs) = {}
            /\ DiffNames(d.add_pkgs) \cap DiffNames(d.upd_pkgs) = {}

\* ============================== SpecDistName: fn_to_dist_name alone
\* Pieces of a base name; a base name may hold the text of a suffix.
BaseTokens == {"foo-1.0-0", "py38", ".conda", ".tar.bz2"}
BaseNames == SeqsUpTo(BaseTokens, MaxLen)

\* The suffixes fn_to_dist_name is called with: the two archive forms and
\* one it does not know.
FileExts == ArchiveExts \cup {".zip"}

DistNameInit ==
    /\ fn_base \in BaseNames
    /\ dist_names = [ext \in FileExts |-> None]
    /\ HashIdle /\ CompileIdle /\ InstallIdle
    /\ SolveIdle /\ ParseIdle /\ FilterIdle /\ DiffIdle /\ EditIdle

\* fn_to_dist_name(b + ext)
CallFnToDistName(ext) ==
    /\ dist_names[ext] = None
    /\ dist_names' = [dist_names EXCEPT ![ext] = Some(FnToDistName(fn_base \o <<ext>>))]
    /\ UNCHANGED <<fn_base, hash_vars, compile_vars, install_vars,
                   solve_vars, parse_vars, filter_vars, diff_vars, edit_vars>>

DistNameNext == \E ext \in FileExts : CallFnToDistName(ext)

SpecDistName == DistNameInit /\ [][DistNameNext]_vars

\* C24: fn_to_dist_name(b + ".tar.bz2") and fn_to_dist_name(b + ".conda")
\* both return b, whatever text b holds.
ArchiveFormsGiveBaseName ==
    \A ext \in ArchiveExts :
        dist_names[ext] # None =>
            /\ dist_names[ext][1].ok
            /\ Str(dist_names[ext][1].val) = Str(fn_base)

\* ============================== SpecEdit: change_dependencies
EditNames == {"numpy", "python", "scipy"}

\* The versions conda_pkg_info may report as the latest of a package.
RepoVersions == {"1.0", "2.0"}

\* f"{name} >={ver}"
PkgSpec(name, ver) == <<name, " ", ">=" \o ver>>

\* _dep_names: pkg.split(" ")[0] of every entry
DepNames(pkgs) == [i \in DOMAIN pkgs |-> Str(Before(pkgs[i], " "))]

\* list.index(x), counted from 1
ListIndex(list, x) ==
    CHOOSE i \in DOMAIN list : list[i] = x /\ \A j \in 1..(i - 1) : list[j] # x

\* list.pop(i) and list.insert(i, x) for a position k = i + 1; insert past
\* the end appends.
ListPop(list, k) == SubSeq(list, 1, k - 1) \o SubSeq(list, k + 1, Len(list))
ListInsert(list, k, x) ==
    IF k > Len(list) THEN Append(list, x)
    ELSE SubSeq(list, 1, k - 1) \o <<x>> \o SubSeq(list, k, Len(list))

Edited(d, n, e) == [deps |-> d, dep_names |-> n, err |-> e]

\* _add_pkg for a conda package whose latest version is ver.
AddPkg(d, n, name, ver) ==
    LET pkg_spec == PkgSpec(name, ver)
    IN  IF InSeq(name, n)
        THEN LET k == ListIndex(n, name)
             IN  IF k > Len(d) THEN Edited(d, n, "IndexError")
                 ELSE IF d[k] = pkg_spec THEN Edited(d, n, "")
                 ELSE Edited(ListInsert(ListPop(d, k), k, pkg_spec),
                             ListInsert(n, k, name), "")
        ELSE Edited(ListInsert(d, Len(d) + 1, pkg_spec),
                    ListInsert(n, Len(d) + 1, name), "")

\* _remove_pkg
RemovePkg(d, n, pkg) ==
    IF ~InSeq(pkg, n) THEN Edited(d, n, "")
    ELSE LET k == ListIndex(n, pkg)
         IN  IF k > Len(d) THEN Edited(d, n, "IndexError")
             ELSE Edited(ListPop(d, k), ListPop(n, k), "")

\* The dependency lists of a specification file: one entry per package.
InitialDeps ==
    {[i \in DOMAIN names |-> PkgSpec(names[i], "1.0")] :
        names \in {ns \in SeqsUpTo(EditNames, MaxLen) :
                      \A i \in DOMAIN ns, j \in DOMAIN ns : ns[i] = ns[j] => i = j}}

EditInit ==
    /\ deps \in InitialDeps
    /\ dep_names = DepNames(deps)
    /\ add_pkgs_left \in SeqsUpTo(EditNames, MaxActions)
    /\ remove_pkgs_left \in SeqsUpTo(EditNames, MaxActions)
    /\ edit_err = ""
    /\ HashIdle /\ CompileIdle /\ InstallIdle
    /\ SolveIdle /\ ParseIdle /\ FilterIdle /\ DiffIdle /\ NameIdle

\* `for pkg in add_pkgs:` one iteration
EditAddPkg ==
    /\ edit_err = ""
    /\ add_pkgs_left # <<>>
    /\ \E ver \in RepoVersions :
         LET r == AddPkg(deps, dep_names, Head(add_pkgs_left), ver)
         IN  /\ deps' = r.deps
             /\ dep_names' = r.dep_names
             /\ edit_err' = r.err
    /\ add_pkgs_left' = Tail(add_pkgs_left)
    /\ UNCHANGED <<remove_pkgs_left, hash_vars, compile_vars, install_vars,
                   solve_vars, parse_vars, filter_vars, diff_vars, name_vars>>

\* `for pkg in remove_pkgs:` one iteration
EditRemovePkg ==
    /\ edit_err = ""
    /\ add_pkgs_left = <<>>
    /\ remove_pkgs_left # <<>>
    /\ LET r == RemovePkg(deps, dep_names, Head(remove_pkgs_left))
       IN  /\ deps' = r.deps
           /\ dep_names' = r.dep_names
           /\ edit_err' = r.err
    /\ remove_pkgs_left' = Tail(remove_pkgs_left)
    /\ UNCHANGED <<add_pkgs_left, hash_vars, compile_vars, install_vars,
                   solve_vars, parse_vars, filter_vars, diff_vars, name_vars>>

EditNext == EditAddPkg \/ EditRemovePkg

SpecEdit == EditInit /\ [][EditNext]_vars

\* C27: while dependencies are added and removed no edit fails on an index
\* and the list of names stays aligned with the dependency list: the same
\* length, and names[i] the name of deps[i].
DepNamesAligned ==
    /\ edit_err = ""
    /\ Len(dep_names) = Len(deps)
    /\ \A i \in DOMAIN deps : dep_names[i] = Str(Before(deps[i], " "))
====
